---- MODULE Spec2Model ----
(***************************************************************************)
(* Model of the workflow engine (packages/workflow-engine): the DSL lexer  *)
(* and recursive-descent parser, the DSL generator, and the structural     *)
(* validators.                                                             *)
(*                                                                         *)
(* Conventions.  Text is a TLA+ string; the character at position i of s   *)
(* is SubSeq(s, i, i).  An optional field (undefined in the TypeScript) is *)
(* a sequence of length 0 (undefined) or 1 (the value).  Every record kind *)
(* (node, dependency, track, error) has one fixed field set.               *)
(***************************************************************************)
EXTENDS Integers, Sequences, FiniteSets, TLC

VARIABLES
  workflow,    \* the Workflow value the caller holds
  validators,  \* ValidationService.validators: the registry, in registration order
  op,          \* name of the last operation that was called
  result,      \* ValidationResult returned by the last validateWorkflow
  errors,      \* ValidationError[] returned by the last direct validate/check* call
  source,      \* the DSL text handed to DslParser.parse / produced by generate
  parser,      \* DslParser instance fields: tokens, current, line, column
  parsed,      \* outcome of the last DslParser.parse: a workflow or an error
  before,      \* how the parse call before the last one ended on this parser
  model,       \* the core model objects under edit: their fields, by reference
  layout       \* VisualizationService.calculateNodeLevels: its locals and position

vars == <<workflow, validators, op, result, errors, source, parser, parsed, before,
          model, layout>>

-----------------------------------------------------------------------------
(* Bounds of the model                                                     *)

\* longest dependency list of the workflows handed to the cycle detector
MaxDeps == 3
\* longest dependency list of the workflows handed to ValidationService
MaxValDeps == 2
\* most validators registered with one ValidationService
MaxValidators == 2
\* dependencies of a workflow handed to the generator
MaxDslDeps == 2
\* elements inside the workflow block of a hand-written document
MaxElements == 3
\* longest dependency list of a workflow whose endpoints need not be node ids
MaxLooseDeps == 3
\* lexemes in front of the unsupported character of a document
MaxLexemes == 2

-----------------------------------------------------------------------------
(* core/types.ts                                                           *)

None == <<>>
Some(x) == <<x>>
IsSome(o) == Len(o) > 0
Get(o) == o[1]

NodeTypes == {"task", "decision", "sync_point", "start", "end"}
DependencyTypes == {"sequential", "conditional", "sync"}

\* A WorkflowNode with only the base fields set.
MkNode(id, type, name) ==
  [id |-> id, type |-> type, name |-> name, description |-> None,
   trackId |-> None, trackName |-> None, taskType |-> None,
   parameters |-> None, timeout |-> None, retries |-> None,
   conditions |-> <<>>, defaultTargetId |-> None, defaultTargetName |-> None,
   config |-> None, resourceRequirements |-> None]

MkDependency(sourceId, targetId, type) ==
  [sourceId |-> sourceId, targetId |-> targetId, type |-> type,
   condition |-> None, isDefault |-> None]

MkTrack(id, name) ==
  [id |-> id, name |-> name, description |-> None, nodeIds |-> <<>>]

MkWorkflow(id, name, nodes, dependencies, tracks) ==
  [id |-> id, name |-> name, description |-> None, version |-> None,
   nodes |-> nodes, dependencies |-> dependencies, tracks |-> tracks]

EmptyWorkflow == MkWorkflow("", "", <<>>, <<>>, <<>>)

MkError(code, message, nodeId, dependencyIds) ==
  [code |-> code, message |-> message, nodeId |-> nodeId,
   dependencyIds |-> dependencyIds]

-----------------------------------------------------------------------------
(* Array helpers of the JavaScript runtime                                 *)

Range(s) == {s[i] : i \in 1..Len(s)}

\* Array.prototype.filter is SelectSeq of the Sequences module.

\* Array.prototype.findIndex (0-based, -1 when absent)
RECURSIVE FindIndexFrom(_, _, _)
FindIndexFrom(s, x, i) ==
  IF i > Len(s) THEN -1
  ELSE IF s[i] = x THEN i - 1
  ELSE FindIndexFrom(s, x, i + 1)

FindIndex(s, x) == FindIndexFrom(s, x, 1)

\* Array.prototype.slice(start), start 0-based, a negative start counts from the end
Slice(s, start) ==
  LET from == IF start < 0 THEN (IF Len(s) + start < 0 THEN 0 ELSE Len(s) + start)
              ELSE start
  IN SubSeq(s, from + 1, Len(s))

\* Array.prototype.join
RECURSIVE JoinFrom(_, _, _)
JoinFrom(s, sep, i) ==
  IF i > Len(s) THEN ""
  ELSE IF i = Len(s) THEN s[i]
  ELSE s[i] \o sep \o JoinFrom(s, sep, i + 1)

Join(s, sep) == JoinFrom(s, sep, 1)

-----------------------------------------------------------------------------
(* validation/validators/workflow-validator.ts: CircularDependencyValidator *)

\* The circular_dependency error pushed when dfs meets a node on the recursion
\* stack: cycle = path.slice(cycleStartIndex).concat(nodeId), one dependencyIds
\* entry per index of cycle, the successor taken modulo cycle.length.
CycleError(path, nodeId) ==
  LET cycleStartIndex == FindIndex(path, nodeId)
      cycle == Slice(path, cycleStartIndex) \o <<nodeId>>
  IN MkError("circular_dependency",
             "Circular dependency detected: " \o Join(cycle, " -> "),
             None,
             [index \in 1..Len(cycle) |->
                cycle[index] \o "->" \o cycle[(index % Len(cycle)) + 1]])

\* a slip that follows sequential dependencies only
OutgoingSequentialOnly(wf, nodeId) ==
  LET From(dep) == dep.sourceId = nodeId /\ dep.type = "sequential"
  IN SelectSeq(wf.dependencies, From)

\* workflow.dependencies.filter(dep => dep.sourceId === nodeId)
OutgoingDependencies(wf, nodeId) ==
  LET From(dep) == dep.sourceId = nodeId
  IN SelectSeq(wf.dependencies, From)

\* dfs(nodeId, path): st holds the closure's errors, visited and recursionStack.
\* Returns [found, st].  A true return leaves the recursion stack as it is.
RECURSIVE Dfs(_, _, _, _), DfsVisit(_, _, _, _, _)
Dfs(wf, st, nodeId, path) ==
  IF nodeId \in st.recursionStack
    THEN [found |-> TRUE,
          st |-> [st EXCEPT !.errors = Append(@, CycleError(path, nodeId))]]
  ELSE IF nodeId \in st.visited
    THEN [found |-> FALSE, st |-> st]
  ELSE
    LET entered == [st EXCEPT !.visited = @ \cup {nodeId},
                              !.recursionStack = @ \cup {nodeId}]
        pushed == Append(path, nodeId)
        after == DfsVisit(wf, entered, OutgoingDependencies(wf, nodeId), 1, pushed)
    IN IF after.found THEN after
       ELSE [found |-> FALSE,
             st |-> [after.st EXCEPT !.recursionStack = @ \ {nodeId}]]

\* a slip that goes on with the next dependency after a cycle was found
RECURSIVE DfsVisitAll(_, _, _, _, _)
DfsVisitAll(wf, st, out, i, path) ==
  IF i > Len(out) THEN [found |-> FALSE, st |-> st]
  ELSE DfsVisitAll(wf, Dfs(wf, st, out[i].targetId, path).st, out, i + 1, path)

\* for (const dep of outgoingDependencies) if (dfs(dep.targetId, [...path])) return true
DfsVisit(wf, st, out, i, path) ==
  IF i > Len(out) THEN [found |-> FALSE, st |-> st]
  ELSE LET r == Dfs(wf, st, out[i].targetId, path)
       IN IF r.found THEN r ELSE DfsVisit(wf, r.st, out, i + 1, path)

\* for (const node of workflow.nodes) if (!visited.has(node.id)) dfs(node.id)
RECURSIVE DfsFromEach(_, _, _)
DfsFromEach(wf, st, i) ==
  IF i > Len(wf.nodes) THEN st
  ELSE IF wf.nodes[i].id \in st.visited THEN DfsFromEach(wf, st, i + 1)
  ELSE DfsFromEach(wf, Dfs(wf, st, wf.nodes[i].id, <<>>).st, i + 1)

CircularDependencyValidate(wf) ==
  DfsFromEach(wf, [errors |-> <<>>, visited |-> {}, recursionStack |-> {}], 1).errors

-----------------------------------------------------------------------------
(* validation/validation-service.ts: ValidationService                     *)

\* checkCircularDependencies: the service's own copy of the same traversal
CheckCircularDependencies(wf) ==
  DfsFromEach(wf, [errors |-> <<>>, visited |-> {}, recursionStack |-> {}], 1).errors

OrphanedNodeError(node) ==
  MkError("orphaned_node",
          "Node \"" \o node.name \o "\" (" \o node.id
            \o ") is orphaned with no connections",
          Some(node.id), <<>>)

\* checkOrphanedNodes
CheckOrphanedNodes(wf) ==
  LET IsStart(node) == node.type = "start"
      IsEnd(node) == node.type = "end"
      startNodeIds == {n.id : n \in Range(SelectSeq(wf.nodes, IsStart))}
      endNodeIds == {n.id : n \in Range(SelectSeq(wf.nodes, IsEnd))}
      NonTerminal(node) == node.id \notin startNodeIds /\ node.id \notin endNodeIds
      nonTerminalNodes == SelectSeq(wf.nodes, NonTerminal)
      Orphaned(node) ==
        LET hasIncoming == \E i \in 1..Len(wf.dependencies) :
                              wf.dependencies[i].targetId = node.id
            hasOutgoing == \E i \in 1..Len(wf.dependencies) :
                              wf.dependencies[i].sourceId = node.id
        IN ~hasIncoming /\ ~hasOutgoing
      orphans == SelectSeq(nonTerminalNodes, Orphaned)
  IN [i \in 1..Len(orphans) |-> OrphanedNodeError(orphans[i])]

\* The validators a ValidationService can hold.  CircularDependencyValidator is
\* the only WorkflowValidator the package defines; CustomValidator stands for a
\* validator a collaborator registers through the abstract WorkflowValidator
\* interface (here: one invalid_dependency error per self-loop dependency).
ValidatorKinds == {"CircularDependencyValidator", "CustomValidator"}

CustomValidate(wf) ==
  LET SelfLoop(dep) == dep.sourceId = dep.targetId
      loops == SelectSeq(wf.dependencies, SelfLoop)
  IN [i \in 1..Len(loops) |->
        MkError("invalid_dependency", "Dependency on itself",
                Some(loops[i].sourceId), <<>>)]

\* validator.validate(workflow), dispatched on the validator's class
ValidatorValidate(validator, wf) ==
  IF validator = "CircularDependencyValidator" THEN CircularDependencyValidate(wf)
  ELSE CustomValidate(wf)

\* for (const validator of this.validators) errors.push(...validator.validate(workflow))
RECURSIVE RunValidators(_, _, _, _)
RunValidators(vs, wf, i, acc) ==
  IF i > Len(vs) THEN acc
  ELSE RunValidators(vs, wf, i + 1, acc \o ValidatorValidate(vs[i], wf))

\* validateWorkflow
\* a slip that stops at the first validator that reports something
ValidateWorkflowFirstOnly(vs, wf) ==
  LET Reports(v) == ValidatorValidate(v, wf) # <<>>
      reporting == SelectSeq(vs, Reports)
      errs == IF reporting = <<>> THEN <<>> ELSE ValidatorValidate(reporting[1], wf)
  IN [valid |-> Len(errs) = 0, errors |-> errs]

ValidateWorkflow(vs, wf) ==
  LET errs == RunValidators(vs, wf, 1, <<>>)
  IN [valid |-> Len(errs) = 0, errors |-> errs]

NoResult == [valid |-> TRUE, errors |-> <<>>]

-----------------------------------------------------------------------------
(* Strings of the JavaScript runtime                                       *)

\* String.prototype.charAt (0-based, "" out of range)
CharAt(s, i) == IF i >= 0 /\ i < Len(s) THEN SubSeq(s, i + 1, i + 1) ELSE ""

Min(a, b) == IF a < b THEN a ELSE b
Max(a, b) == IF a > b THEN a ELSE b
Clamp(i, n) == Max(0, Min(i, n))

\* String.prototype.substring(a, b): arguments clamped to 0..length and swapped
\* when a > b
Substring(s, a, b) ==
  LET x == Clamp(a, Len(s))
      y == Clamp(b, Len(s))
  IN SubSeq(s, Min(x, y) + 1, Max(x, y))

Whitespace == {" ", "\t", "\n", "\r", "\f"}
Digits == {"0", "1", "2", "3", "4", "5", "6", "7", "8", "9"}
Letters ==
  {"a", "b", "c", "d", "e", "f", "g", "h", "i", "j", "k", "l", "m",
   "n", "o", "p", "q", "r", "s", "t", "u", "v", "w", "x", "y", "z",
   "A", "B", "C", "D", "E", "F", "G", "H", "I", "J", "K", "L", "M",
   "N", "O", "P", "Q", "R", "S", "T", "U", "V", "W", "X", "Y", "Z"}
NumberChars == Digits \cup {"."}
IdentifierStart == Letters \cup {"_"}
IdentifierChars == Letters \cup Digits \cup {"_"}

\* index of the first character at or after i that is not in Chars
RECURSIVE SkipWhile(_, _, _)
SkipWhile(s, i, Chars) ==
  IF i < Len(s) /\ CharAt(s, i) \in Chars THEN SkipWhile(s, i + 1, Chars) ELSE i

\* index of the first newline at or after i, or the length
RECURSIVE SkipToNewline(_, _)
SkipToNewline(s, i) ==
  IF i < Len(s) /\ CharAt(s, i) # "\n" THEN SkipToNewline(s, i + 1) ELSE i

\* digits to the number they write
RECURSIVE DigitsToNat(_, _, _)
DigitsToNat(s, i, acc) ==
  IF i >= Len(s) THEN acc
  ELSE DigitsToNat(s, i + 1,
         10 * acc + (CHOOSE d \in 0..9 : ToString(d) = CharAt(s, i)))

RECURSIVE StripTrailingZeros(_)
StripTrailingZeros(s) ==
  IF Len(s) > 0 /\ CharAt(s, Len(s) - 1) = "0"
    THEN StripTrailingZeros(Substring(s, 0, Len(s) - 1))
    ELSE s

\* A number is its integer part and its fraction digits (no trailing zero).
MkNumber(int, frac) == [int |-> int, frac |-> frac]

\* parseFloat on text that starts with a digit and holds digits and dots only
\* (a NUMBER token, or a condition operand that matched the decimal pattern):
\* the longest prefix digits[.digits]
ParseFloat(s) ==
  LET i1 == SkipWhile(s, 0, Digits)
      i2 == IF CharAt(s, i1) = "." THEN SkipWhile(s, i1 + 1, Digits) ELSE i1
  IN MkNumber(DigitsToNat(Substring(s, 0, i1), 0, 0),
              IF i2 > i1 THEN StripTrailingZeros(Substring(s, i1 + 1, i2)) ELSE "")

\* String(number)
NumberToString(n) ==
  ToString(n.int) \o (IF n.frac = "" THEN "" ELSE "." \o n.frac)

-----------------------------------------------------------------------------
(* dsl/grammar.ts                                                          *)

KEYWORDS ==
  [w \in {"workflow", "track", "task", "decision", "sync", "start", "end",
          "dependencies", "resources", "parameters", "condition", "then",
          "when", "default", "description", "version", "type",
          "wait_for_all", "timeout", "true", "false"} |->
     CASE w = "workflow" -> "WORKFLOW"
       [] w = "track" -> "TRACK"
       [] w = "task" -> "TASK"
       [] w = "decision" -> "DECISION"
       [] w = "sync" -> "SYNC"
       [] w = "start" -> "START"
       [] w = "end" -> "END"
       [] w = "dependencies" -> "DEPENDENCIES"
       [] w = "resources" -> "RESOURCES"
       [] w = "parameters" -> "PARAMETERS"
       [] w = "condition" -> "CONDITION"
       [] w = "then" -> "THEN"
       [] w = "when" -> "WHEN"
       [] w = "default" -> "DEFAULT"
       [] w = "description" -> "DESCRIPTION"
       [] w = "version" -> "VERSION"
       [] w = "type" -> "TYPE"
       [] w = "wait_for_all" -> "WAIT_FOR_ALL"
       [] w = "timeout" -> "TIMEOUT"
       [] w = "true" -> "BOOLEAN"
       [] w = "false" -> "BOOLEAN"]

\* KEYWORDS is a plain object: these names are found on Object.prototype, so
\* KEYWORDS[value] is truthy for them and is no TokenType
ObjectPrototypeKeys ==
  {"constructor", "toString", "valueOf", "hasOwnProperty", "isPrototypeOf",
   "propertyIsEnumerable", "toLocaleString", "__proto__",
   "__defineGetter__", "__defineSetter__", "__lookupGetter__", "__lookupSetter__"}

\* KEYWORDS[value] || TokenType.IDENTIFIER
KeywordType(value) ==
  IF value \in DOMAIN KEYWORDS THEN KEYWORDS[value]
  ELSE IF value \in ObjectPrototypeKeys THEN "Object.prototype." \o value
  ELSE "IDENTIFIER"

MkToken(type, value, line, column) ==
  [type |-> type, value |-> value, line |-> line, column |-> column]

-----------------------------------------------------------------------------
(* dsl/dsl-parser.ts: DslParser.tokenize                                   *)

SymbolType(char) ==
  CASE char = "{" -> "LEFT_BRACE"
    [] char = "}" -> "RIGHT_BRACE"
    [] char = "(" -> "LEFT_PAREN"
    [] char = ")" -> "RIGHT_PAREN"
    [] char = "[" -> "LEFT_BRACKET"
    [] char = "]" -> "RIGHT_BRACKET"
    [] char = ":" -> "COLON"
    [] char = "," -> "COMMA"

Symbols == {"{", "}", "(", ")", "[", "]", ":", ","}

\* the scan of a block comment body: line and column are advanced per character
RECURSIVE ScanBlockComment(_, _, _)
ScanBlockComment(src, current, lx) ==
  IF current < Len(src)
     /\ ~(CharAt(src, current) = "*" /\ CharAt(src, current + 1) = "/")
    THEN ScanBlockComment(src, current + 1,
           IF CharAt(src, current) = "\n"
             THEN [lx EXCEPT !.line = @ + 1, !.column = 1]
             ELSE [lx EXCEPT !.column = @ + 1])
    ELSE [current |-> current, lx |-> lx]

\* the scan of a string body up to the closing quote
RECURSIVE ScanString(_, _, _)
ScanString(src, current, lx) ==
  IF current < Len(src) /\ CharAt(src, current) # "\""
    THEN IF CharAt(src, current) = "\\" /\ current + 1 < Len(src)
           THEN ScanString(src, current + 2, [lx EXCEPT !.column = @ + 2])
           ELSE ScanString(src, current + 1,
                  IF CharAt(src, current) = "\n"
                    THEN [lx EXCEPT !.line = @ + 1, !.column = 1]
                    ELSE [lx EXCEPT !.column = @ + 1])
    ELSE [current |-> current, lx |-> lx]

Push(lx, token) == [lx EXCEPT !.tokens = Append(@, token)]

\* one turn of the while loop of tokenize at position current; lx holds the
\* fields of the parser (this.tokens, this.current, this.line, this.column).  Returns the position and the
\* fields after the turn, or ok = FALSE and the message when the turn throws.
ScanToken(src, current, lx) ==
  LET char == CharAt(src, current)
      next == CharAt(src, current + 1)
      Continue(stop, after) == [ok |-> TRUE, error |-> "", current |-> stop, lx |-> after]
  IN
  IF char \in Whitespace
    THEN Continue(current + 1,
           IF char = "\n" THEN [lx EXCEPT !.line = @ + 1, !.column = 1]
           ELSE [lx EXCEPT !.column = @ + 1])
  ELSE IF char = "/" /\ next = "/"
    THEN LET start == current
             stop == SkipToNewline(src, current + 2)
             comment == Substring(src, start, stop)
         IN Continue(stop,
              [Push(lx, MkToken("COMMENT", comment, lx.line, lx.column))
                 EXCEPT !.column = @ + Len(comment)])
  ELSE IF char = "/" /\ next = "*"
    THEN LET start == current
             scan == ScanBlockComment(src, current + 2, lx)
             stop == IF scan.current < Len(src) THEN scan.current + 2 ELSE scan.current
             comment == Substring(src, start, stop)
         IN Continue(stop,
              [Push(scan.lx, MkToken("COMMENT", comment, scan.lx.line, scan.lx.column))
                 EXCEPT !.column = @ + Len(comment)])
  ELSE IF char \in Symbols
    THEN Continue(current + 1,
           [Push(lx, MkToken(SymbolType(char), char, lx.line, lx.column))
              EXCEPT !.column = @ + 1])
  ELSE IF char = "-" /\ next = ">"
    THEN Continue(current + 2,
           [Push(lx, MkToken("ARROW", "->", lx.line, lx.column))
              EXCEPT !.column = @ + 2])
  ELSE IF char = "\""
    THEN LET start == current
             scan == ScanString(src, current + 1, lx)
             stop == IF scan.current < Len(src) THEN scan.current + 1 ELSE scan.current
             value == Substring(src, start + 1, stop - 1)
         IN Continue(stop,
              [Push(scan.lx, MkToken("STRING", value, scan.lx.line,
                                     scan.lx.column - Len(value) - 2))
                 EXCEPT !.column = @ + 1])
  ELSE IF char \in Digits
    THEN LET stop == SkipWhile(src, current, NumberChars)
             value == Substring(src, current, stop)
         IN Continue(stop,
              [Push(lx, MkToken("NUMBER", value, lx.line, lx.column))
                 EXCEPT !.column = @ + Len(value)])
  ELSE IF char \in IdentifierStart
    THEN LET stop == SkipWhile(src, current, IdentifierChars)
             value == Substring(src, current, stop)
         IN Continue(stop,
              [Push(lx, MkToken(KeywordType(value), value, lx.line, lx.column))
                 EXCEPT !.column = @ + Len(value)])
  ELSE [ok |-> FALSE, current |-> current, lx |-> lx,
        error |-> "Unexpected character: " \o char \o " at line " \o ToString(lx.line)
                    \o ", column " \o ToString(lx.column)]

\* the while test and one turn: lp is [ok, error, current, lx, done], done once
\* the loop has ended and the EOF token is pushed
TokenizeTurn(src, lp) ==
  IF ~lp.ok \/ lp.done THEN lp
  ELSE IF lp.current >= Len(src)
    THEN [lp EXCEPT !.done = TRUE,
                    !.lx = Push(@, MkToken("EOF", "", lp.lx.line, lp.lx.column))]
  ELSE LET turn == ScanToken(src, lp.current, lp.lx)
       IN [ok |-> turn.ok, error |-> turn.error, current |-> turn.current,
           lx |-> turn.lx, done |-> FALSE]

\* 2^k turns of the loop, the second half run on the outcome of the first
RECURSIVE TokenizeTurns(_, _, _)
TokenizeTurns(src, lp, k) ==
  IF ~lp.ok \/ lp.done THEN lp
  ELSE IF k = 0 THEN TokenizeTurn(src, lp)
  ELSE TokenizeTurns(src, TokenizeTurns(src, lp, k - 1), k - 1)

\* the least k with 2^k > n
RECURSIVE Doublings(_, _)
Doublings(n, k) == IF 2^k > n THEN k ELSE Doublings(n, k + 1)

\* the while loop of tokenize from position current, then the EOF token; a
\* turn consumes at least one character, so length + 1 turns end the loop
TokenizeFrom(src, current, lx) ==
  LET lp == TokenizeTurns(src,
              [ok |-> TRUE, error |-> "", current |-> current, lx |-> lx, done |-> FALSE],
              Doublings(Len(src) + 1, 0))
  IN [ok |-> lp.ok, error |-> lp.error, lx |-> lp.lx]

\* a slip that leaves the fields of the parser as the last call left them
KeepFields(prs) == prs

\* this.tokens = []; this.current = 0; this.line = 1; this.column = 1
ResetFields(prs) ==
  [prs EXCEPT !.tokens = <<>>, !.current = 0, !.line = 1, !.column = 1]

\* tokenize(source) on the parser prs: the fields are reset, then the loop runs
Tokenize(prs, src) == TokenizeFrom(src, 0, ResetFields(prs))

-----------------------------------------------------------------------------
(* dsl/dsl-parser.ts: the token cursor                                     *)
(*                                                                         *)
(* c is what a parse call reads and never changes: c.tokens (this.tokens), *)
(* c.nows (what the successive Date.now() calls return) and c.rands (what  *)
(* the successive Math.floor(Math.random() * 10000) return).  p is what it *)
(* advances: p.cur (this.current), p.n and p.r (clock and random calls     *)
(* made so far).  A production returns [ok, p, val, error]; ok = FALSE is  *)
(* a thrown Error with that message.  Inside a production the tokens it    *)
(* consumes are named as the code names them; what a production or a loop  *)
(* it calls returns is handed to a local operator, which is the statements *)
(* following that call.                                                    *)

Ok(p, val) == [ok |-> TRUE, p |-> p, val |-> val, error |-> ""]
Fail(p, message) == [ok |-> FALSE, p |-> p, val |-> <<>>, error |-> message]

Peek(c, p) == c.tokens[p.cur + 1]
Previous(c, p) == c.tokens[p.cur]
IsAtEnd(c, p) == Peek(c, p).type = "EOF"
Check(c, p, type) == IF IsAtEnd(c, p) THEN FALSE ELSE Peek(c, p).type = type
\* advance(): the cursor after it; the token it returns is Previous of that
Advance(c, p) == IF ~IsAtEnd(c, p) THEN [p EXCEPT !.cur = @ + 1] ELSE p

\* error(token, message)
ErrorAt(token, message) ==
  message \o " at line " \o ToString(token.line) \o ", column " \o ToString(token.column)

\* consume(type, message)
Consume(c, p, type, message) ==
  IF Check(c, p, type) THEN Ok(Advance(c, p), Previous(c, Advance(c, p)))
  ELSE Fail(p, ErrorAt(Peek(c, p), message))

ParseString(c, p) ==
  LET Value(token) == IF token.ok THEN Ok(token.p, token.val.value) ELSE token
  IN Value(Consume(c, p, "STRING", "Expected string"))

ParseNumber(c, p) ==
  LET Value(token) == IF token.ok THEN Ok(token.p, ParseFloat(token.val.value)) ELSE token
  IN Value(Consume(c, p, "NUMBER", "Expected number"))

ParseBoolean(c, p) ==
  LET Value(token) == IF token.ok THEN Ok(token.p, token.val.value = "true") ELSE token
  IN Value(Consume(c, p, "BOOLEAN", "Expected boolean"))

ParseIdentifier(c, p) ==
  LET Value(token) == IF token.ok THEN Ok(token.p, token.val.value) ELSE token
  IN Value(Consume(c, p, "IDENTIFIER", "Expected identifier"))

\* the while condition of every block: !check(closing) && !isAtEnd()
InBlock(c, p, closing) == ~Check(c, p, closing) /\ ~IsAtEnd(c, p)

-----------------------------------------------------------------------------
(* dsl/dsl-parser.ts: conditions and operators                             *)

OperatorWords ==
  {"==", "=", "equals", "!=", "not_equals", ">", "greater_than", "<", "less_than",
   ">=", "greater_than_or_equals", "<=", "less_than_or_equals", "contains",
   "not_contains", "starts_with", "ends_with", "regex"}

\* a slip in the switch: the case labels of >= and <= fall into the cases
\* of > and <
OperatorOfFallThrough(word) ==
  CASE word \in {"==", "=", "equals"} -> "equals"
    [] word \in {"!=", "not_equals"} -> "not_equals"
    [] word \in {">", ">=", "greater_than"} -> "greater_than"
    [] word \in {"<", "<=", "less_than"} -> "less_than"
    [] word = "greater_than_or_equals" -> "greater_than_or_equals"
    [] word = "less_than_or_equals" -> "less_than_or_equals"
    [] word = "contains" -> "contains"
    [] word = "not_contains" -> "not_contains"
    [] word = "starts_with" -> "starts_with"
    [] word = "ends_with" -> "ends_with"
    [] word = "regex" -> "regex"

\* the switch shared by parseCondition and parseOperator
OperatorOf(word) ==
  CASE word \in {"==", "=", "equals"} -> "equals"
    [] word \in {"!=", "not_equals"} -> "not_equals"
    [] word \in {">", "greater_than"} -> "greater_than"
    [] word \in {"<", "less_than"} -> "less_than"
    [] word \in {">=", "greater_than_or_equals"} -> "greater_than_or_equals"
    [] word \in {"<=", "less_than_or_equals"} -> "less_than_or_equals"
    [] word = "contains" -> "contains"
    [] word = "not_contains" -> "not_contains"
    [] word = "starts_with" -> "starts_with"
    [] word = "ends_with" -> "ends_with"
    [] word = "regex" -> "regex"

\* values of parameters and operands: string | number | boolean | array | object
StringValue(s) == [kind |-> "string", val |-> s]
NumberValue(n) == [kind |-> "number", val |-> n]
BooleanValue(b) == [kind |-> "boolean", val |-> b]
ArrayValue(items) == [kind |-> "array", val |-> items]
ObjectValue(entries) == [kind |-> "object", val |-> entries]

MkCondition(leftOperand, operator, rightOperand, targetName) ==
  [leftOperand |-> leftOperand, operator |-> operator,
   rightOperand |-> rightOperand, targetName |-> targetName]

\* String.prototype.split(/\s+/): the pieces between maximal runs of whitespace
RECURSIVE SplitFrom(_, _, _)
SplitFrom(s, i, piece) ==
  IF i >= Len(s) THEN <<piece>>
  ELSE IF CharAt(s, i) \in Whitespace
    THEN <<piece>> \o SplitFrom(s, SkipWhile(s, i, Whitespace), "")
  ELSE SplitFrom(s, i + 1, piece \o CharAt(s, i))

SplitWhitespace(s) == SplitFrom(s, 0, "")

\* /^[0-9]+(\.[0-9]+)?$/
IsDecimal(s) ==
  LET i1 == SkipWhile(s, 0, Digits)
      i2 == SkipWhile(s, i1 + 1, Digits)
  IN /\ i1 > 0
     /\ \/ i1 = Len(s)
        \/ CharAt(s, i1) = "." /\ i2 > i1 + 1 /\ i2 = Len(s)

\* parseCondition(): condition "<left> <op> <right>" then "<target>"
ParseCondition(c, p) ==
  LET str == ParseString(c, p)
      then == Consume(c, str.p, "THEN", "Expected then keyword after condition")
      target == ParseString(c, then.p)
      parts == SplitWhitespace(str.val)
  IN IF ~str.ok THEN str
     ELSE IF ~then.ok THEN then
     ELSE IF ~target.ok THEN target
     ELSE IF Len(parts) # 3 THEN Fail(target.p, "Invalid condition format: " \o str.val)
     ELSE IF parts[2] \notin OperatorWords
       THEN Fail(target.p, "Unknown operator: " \o parts[2])
     ELSE
       Ok(target.p,
          MkCondition(parts[1], OperatorOf(parts[2]),
                      IF parts[3] = "true" THEN BooleanValue(TRUE)
                      ELSE IF parts[3] = "false" THEN BooleanValue(FALSE)
                      ELSE IF IsDecimal(parts[3]) THEN NumberValue(ParseFloat(parts[3]))
                      ELSE StringValue(parts[3]),
                      Some(target.val)))

\* parseOperator(): the next token, whatever its type, read as an operator
ParseOperator(c, p) ==
  LET Operator(after, token) ==
        IF token.value \in OperatorWords THEN Ok(after, OperatorOf(token.value))
        ELSE Fail(after, ErrorAt(token, "Expected operator"))
  IN Operator(Advance(c, p), Previous(c, Advance(c, p)))

-----------------------------------------------------------------------------
(* dsl/dsl-parser.ts: values, arrays, objects, resources                   *)

\* obj[key] = value on an object kept as its entries in insertion order
SetEntry(entries, key, value) ==
  IF \E i \in 1..Len(entries) : entries[i].key = key
    THEN [i \in 1..Len(entries) |->
            IF entries[i].key = key THEN [key |-> key, value |-> value] ELSE entries[i]]
    ELSE Append(entries, [key |-> key, value |-> value])

RECURSIVE ParseValue(_, _), ParseArray(_, _), ArrayLoop(_, _, _),
          ParseObject(_, _), ObjectLoop(_, _, _)

\* parseValue()
ParseValue(c, p) ==
  LET String(r) == IF r.ok THEN Ok(r.p, StringValue(r.val)) ELSE r
      Number(r) == IF r.ok THEN Ok(r.p, NumberValue(r.val)) ELSE r
      Boolean(r) == IF r.ok THEN Ok(r.p, BooleanValue(r.val)) ELSE r
      Array(r) == IF r.ok THEN Ok(r.p, ArrayValue(r.val)) ELSE r
      Object(r) == IF r.ok THEN Ok(r.p, ObjectValue(r.val)) ELSE r
  IN IF Check(c, p, "STRING") THEN String(ParseString(c, p))
     ELSE IF Check(c, p, "NUMBER") THEN Number(ParseNumber(c, p))
     ELSE IF Check(c, p, "BOOLEAN") THEN Boolean(ParseBoolean(c, p))
     ELSE IF Check(c, p, "LEFT_BRACKET") THEN Array(ParseArray(c, p))
     ELSE IF Check(c, p, "LEFT_BRACE") THEN Object(ParseObject(c, p))
     ELSE Fail(p, ErrorAt(Peek(c, p), "Expected value"))

\* the while loop of parseArray: a value, then a comma or the end of the loop
ArrayLoop(c, p, array) ==
  LET Pushed(v) ==
        IF ~v.ok THEN v
        ELSE IF Check(c, v.p, "COMMA") THEN ArrayLoop(c, Advance(c, v.p), Append(array, v.val))
        ELSE Ok(v.p, Append(array, v.val))
  IN IF ~InBlock(c, p, "RIGHT_BRACKET") THEN Ok(p, array) ELSE Pushed(ParseValue(c, p))

\* parseArray()
ParseArray(c, p) ==
  LET open == Consume(c, p, "LEFT_BRACKET", "Expected [ for array")
      Close(body, close) == IF ~close.ok THEN close ELSE Ok(close.p, body.val)
      Body(body) ==
        IF ~body.ok THEN body
        ELSE Close(body, Consume(c, body.p, "RIGHT_BRACKET", "Expected ] after array"))
  IN IF ~open.ok THEN open ELSE Body(ArrayLoop(c, open.p, <<>>))

\* the while loop of parseObject
ObjectLoop(c, p, obj) ==
  LET key == ParseIdentifier(c, p)
      colon == Consume(c, key.p, "COLON", "Expected : after parameter name")
      Value(value) ==
        IF ~value.ok THEN value ELSE ObjectLoop(c, value.p, SetEntry(obj, key.val, value.val))
  IN IF ~InBlock(c, p, "RIGHT_BRACE") THEN Ok(p, obj)
     ELSE IF Check(c, p, "IDENTIFIER")
       THEN IF ~key.ok THEN key
            ELSE IF ~colon.ok THEN colon
            ELSE Value(ParseValue(c, colon.p))
     ELSE IF Check(c, p, "COMMENT") THEN ObjectLoop(c, Advance(c, p), obj)
     ELSE Fail(p, ErrorAt(Peek(c, p), "Expected parameter definition"))

\* parseObject()
ParseObject(c, p) ==
  LET open == Consume(c, p, "LEFT_BRACE", "Expected { after parameters keyword")
      Close(body, close) == IF ~close.ok THEN close ELSE Ok(close.p, body.val)
      Body(body) ==
        IF ~body.ok THEN body
        ELSE Close(body, Consume(c, body.p, "RIGHT_BRACE", "Expected } after parameters section"))
  IN IF ~open.ok THEN open ELSE Body(ObjectLoop(c, open.p, <<>>))

MkResource(resourceType, amount, resourceId) ==
  [resourceType |-> resourceType, amount |-> amount, resourceId |-> resourceId]

\* the switch of parseResources on the resource name
ResourceTypeOf(name) == IF name \in {"cpu", "memory", "gpu"} THEN name ELSE "custom"

\* the while loop of parseResources
RECURSIVE ResourcesLoop(_, _, _)
ResourcesLoop(c, p, resources) ==
  LET name == ParseIdentifier(c, p)
      colon == Consume(c, name.p, "COLON", "Expected : after resource type")
      amount == ParseNumber(c, colon.p)
  IN IF ~InBlock(c, p, "RIGHT_BRACE") THEN Ok(p, resources)
     ELSE IF Check(c, p, "IDENTIFIER")
       THEN IF ~name.ok THEN name
            ELSE IF ~colon.ok THEN colon
            ELSE IF ~amount.ok THEN amount
            ELSE ResourcesLoop(c, amount.p,
                   Append(resources,
                          MkResource(ResourceTypeOf(name.val), amount.val,
                                     IF ResourceTypeOf(name.val) = "custom"
                                       THEN Some(name.val) ELSE None)))
     ELSE IF Check(c, p, "COMMENT") THEN ResourcesLoop(c, Advance(c, p), resources)
     ELSE Fail(p, ErrorAt(Peek(c, p), "Expected resource definition"))

\* parseResources()
ParseResources(c, p) ==
  LET open == Consume(c, p, "LEFT_BRACE", "Expected { after resources keyword")
      Close(body, close) == IF ~close.ok THEN close ELSE Ok(close.p, body.val)
      Body(body) ==
        IF ~body.ok THEN body
        ELSE Close(body, Consume(c, body.p, "RIGHT_BRACE", "Expected } after resources section"))
  IN IF ~open.ok THEN open ELSE Body(ResourcesLoop(c, open.p, <<>>))

-----------------------------------------------------------------------------
(* dsl/dsl-parser.ts: dependencies, nodes, tracks, the workflow            *)

\* Date.now() and Math.floor(Math.random() * 10000) as the next draws of c
NowId(c, p) == ToString(c.nows[p.n + 1])
RandomId(c, p) == ToString(c.rands[p.r + 1])
AfterNow(p) == [p EXCEPT !.n = @ + 1]
AfterNowAndRandom(p) == [p EXCEPT !.n = @ + 1, !.r = @ + 1]

\* the when clause: parseIdentifier(), parseOperator(), parseValue()
ParseWhen(c, p) ==
  LET left == ParseIdentifier(c, p)
      operator == ParseOperator(c, left.p)
      Right(right) ==
        IF ~right.ok THEN right
        ELSE Ok(right.p, MkCondition(left.val, operator.val, right.val, None))
  IN IF ~left.ok THEN left
     ELSE IF ~operator.ok THEN operator
     ELSE Right(ParseValue(c, operator.p))

\* the while loop of parseDependencies
RECURSIVE DependenciesLoop(_, _, _)
DependenciesLoop(c, p, dependencies) ==
  LET sourceName == ParseString(c, p)
      arrow == Consume(c, sourceName.p, "ARROW", "Expected -> in dependency definition")
      targetName == ParseString(c, arrow.p)
      dependency == MkDependency(sourceName.val, targetName.val, "sequential")
      When(condition) ==
        IF ~condition.ok THEN condition
        ELSE DependenciesLoop(c, condition.p,
               Append(dependencies,
                      [dependency EXCEPT !.type = "conditional",
                                         !.condition = Some(condition.val)]))
  IN IF ~InBlock(c, p, "RIGHT_BRACE") THEN Ok(p, dependencies)
     ELSE IF Check(c, p, "STRING")
       THEN IF ~sourceName.ok THEN sourceName
            ELSE IF ~arrow.ok THEN arrow
            ELSE IF ~targetName.ok THEN targetName
            ELSE IF Check(c, targetName.p, "WHEN")
              THEN When(ParseWhen(c, Advance(c, targetName.p)))
            ELSE IF Check(c, targetName.p, "DEFAULT")
              THEN DependenciesLoop(c, Advance(c, targetName.p),
                     Append(dependencies,
                            [dependency EXCEPT !.type = "conditional",
                                               !.isDefault = Some(TRUE)]))
            ELSE DependenciesLoop(c, targetName.p, Append(dependencies, dependency))
     ELSE IF Check(c, p, "COMMENT") THEN DependenciesLoop(c, Advance(c, p), dependencies)
     ELSE Fail(p, ErrorAt(Peek(c, p), "Expected dependency definition"))

\* parseDependencies()
ParseDependencies(c, p) ==
  LET open == Consume(c, p, "LEFT_BRACE", "Expected { after dependencies keyword")
      Close(body, close) == IF ~close.ok THEN close ELSE Ok(close.p, body.val)
      Body(body) ==
        IF ~body.ok THEN body
        ELSE Close(body,
                   Consume(c, body.p, "RIGHT_BRACE", "Expected } after dependencies section"))
  IN IF ~open.ok THEN open ELSE Body(DependenciesLoop(c, open.p, <<>>))

MkConfig == [requiredSources |-> <<>>, waitForAll |-> None, timeout |-> None]

\* if (!node.config) node.config = { requiredSources: [] }
WithConfig(node) == IF IsSome(node.config) THEN node ELSE [node EXCEPT !.config = Some(MkConfig)]

\* the while loop of parseNode
RECURSIVE NodeLoop(_, _, _)
NodeLoop(c, p, node) ==
  LET type == node.type
      a == Advance(c, p)
      NotValid(property) ==
        Fail(a, ErrorAt(Peek(c, a), property \o " property not valid for " \o type \o " nodes"))
      \* node.<property> = <what was parsed>
      Set(property, r) ==
        IF ~r.ok THEN r ELSE NodeLoop(c, r.p, [node EXCEPT ![property] = Some(r.val)])
      \* node.conditions.push(condition)
      Add(r) ==
        IF ~r.ok THEN r ELSE NodeLoop(c, r.p, [node EXCEPT !.conditions = Append(@, r.val)])
      \* node.config.<property> = <what was parsed>
      SetConfig(property, r) ==
        IF ~r.ok THEN r
        ELSE NodeLoop(c, r.p,
               [WithConfig(node) EXCEPT
                  !.config = Some([Get(@) EXCEPT ![property] = Some(r.val)])])
      Timeout(r) == IF type = "sync_point" THEN SetConfig("timeout", r) ELSE Set("timeout", r)
  IN IF ~InBlock(c, p, "RIGHT_BRACE") THEN Ok(p, node)
     ELSE IF Check(c, p, "DESCRIPTION") THEN Set("description", ParseString(c, a))
     ELSE IF Check(c, p, "TRACK") THEN Set("trackName", ParseString(c, a))
     ELSE IF Check(c, p, "TYPE")
       THEN IF type # "task" THEN NotValid("Type") ELSE Set("taskType", ParseString(c, a))
     ELSE IF Check(c, p, "PARAMETERS") THEN Set("parameters", ParseObject(c, a))
     ELSE IF Check(c, p, "RESOURCES") THEN Set("resourceRequirements", ParseResources(c, a))
     ELSE IF Check(c, p, "CONDITION")
       THEN IF type # "decision" THEN NotValid("Condition") ELSE Add(ParseCondition(c, a))
     ELSE IF Check(c, p, "DEFAULT")
       THEN IF type # "decision" THEN NotValid("Default")
            ELSE Set("defaultTargetName", ParseString(c, a))
     ELSE IF Check(c, p, "WAIT_FOR_ALL")
       THEN IF type # "sync_point" THEN NotValid("wait_for_all")
            ELSE SetConfig("waitForAll", ParseBoolean(c, a))
     ELSE IF Check(c, p, "TIMEOUT")
       THEN IF type \notin {"sync_point", "task"} THEN NotValid("timeout")
            ELSE Timeout(ParseNumber(c, a))
     ELSE IF Check(c, p, "COMMENT") THEN NodeLoop(c, a, node)
     ELSE Fail(p, ErrorAt(Peek(c, p), "Expected " \o type \o " node property"))

\* parseNode(type)
ParseNode(c, p, type) ==
  LET name == ParseString(c, p)
      open == Consume(c, name.p, "LEFT_BRACE", "Expected { after " \o type \o " node name")
      node == MkNode("node-" \o NowId(c, open.p) \o "-" \o RandomId(c, open.p), type, name.val)
      Close(body, close) == IF ~close.ok THEN close ELSE Ok(close.p, body.val)
      Body(body) ==
        IF ~body.ok THEN body
        ELSE Close(body,
                   Consume(c, body.p, "RIGHT_BRACE",
                           "Expected } after " \o type \o " node definition"))
  IN IF ~name.ok THEN name
     ELSE IF ~open.ok THEN open
     ELSE Body(NodeLoop(c, AfterNowAndRandom(open.p), node))

\* the while loop of parseTrack
RECURSIVE TrackLoop(_, _, _)
TrackLoop(c, p, track) ==
  LET Description(r) ==
        IF ~r.ok THEN r ELSE TrackLoop(c, r.p, [track EXCEPT !.description = Some(r.val)])
  IN IF ~InBlock(c, p, "RIGHT_BRACE") THEN Ok(p, track)
     ELSE IF Check(c, p, "DESCRIPTION") THEN Description(ParseString(c, Advance(c, p)))
     ELSE IF Check(c, p, "COMMENT") THEN TrackLoop(c, Advance(c, p), track)
     ELSE Fail(p, ErrorAt(Peek(c, p), "Expected track property"))

\* parseTrack()
ParseTrack(c, p) ==
  LET name == ParseString(c, p)
      open == Consume(c, name.p, "LEFT_BRACE", "Expected { after track name")
      track == MkTrack("track-" \o NowId(c, open.p) \o "-" \o RandomId(c, open.p), name.val)
      Close(body, close) == IF ~close.ok THEN close ELSE Ok(close.p, body.val)
      Body(body) ==
        IF ~body.ok THEN body
        ELSE Close(body, Consume(c, body.p, "RIGHT_BRACE", "Expected } after track definition"))
  IN IF ~name.ok THEN name
     ELSE IF ~open.ok THEN open
     ELSE Body(TrackLoop(c, AfterNowAndRandom(open.p), track))

\* the token types that open a node, and the NodeType each one parses
NodeKeywords == {"START", "END", "TASK", "DECISION", "SYNC"}
NodeTypeOf(tokenType) ==
  CASE tokenType = "START" -> "start"
    [] tokenType = "END" -> "end"
    [] tokenType = "TASK" -> "task"
    [] tokenType = "DECISION" -> "decision"
    [] tokenType = "SYNC" -> "sync_point"

\* the while loop of parseWorkflow
RECURSIVE WorkflowLoop(_, _, _)
WorkflowLoop(c, p, wf) ==
  LET a == Advance(c, p)
      \* workflow.<property> = <what was parsed>
      Set(property, r) ==
        IF ~r.ok THEN r ELSE WorkflowLoop(c, r.p, [wf EXCEPT ![property] = Some(r.val)])
      \* tracks.push(track), nodes.push(node)
      Add(collection, r) ==
        IF ~r.ok THEN r ELSE WorkflowLoop(c, r.p, [wf EXCEPT ![collection] = Append(@, r.val)])
      \* dependencies = this.parseDependencies()
      Dependencies(r) ==
        IF ~r.ok THEN r ELSE WorkflowLoop(c, r.p, [wf EXCEPT !.dependencies = r.val])
  IN IF ~InBlock(c, p, "RIGHT_BRACE") THEN Ok(p, wf)
     ELSE IF Check(c, p, "DESCRIPTION") THEN Set("description", ParseString(c, a))
     ELSE IF Check(c, p, "VERSION") THEN Set("version", ParseString(c, a))
     ELSE IF Check(c, p, "TRACK") THEN Add("tracks", ParseTrack(c, a))
     ELSE IF Peek(c, p).type \in NodeKeywords
       THEN Add("nodes", ParseNode(c, a, NodeTypeOf(Peek(c, p).type)))
     ELSE IF Check(c, p, "DEPENDENCIES") THEN Dependencies(ParseDependencies(c, a))
     ELSE IF Check(c, p, "COMMENT") THEN WorkflowLoop(c, a, wf)
     ELSE Fail(p, ErrorAt(Peek(c, p), "Expected workflow element"))

\* parseWorkflow()
ParseWorkflow(c, p) ==
  LET keyword == Consume(c, p, "WORKFLOW", "Expected workflow keyword")
      name == ParseString(c, keyword.p)
      open == Consume(c, name.p, "LEFT_BRACE", "Expected { after workflow name")
      wf == MkWorkflow("workflow-" \o NowId(c, open.p), name.val, <<>>, <<>>, <<>>)
      Close(body, close) == IF ~close.ok THEN close ELSE Ok(close.p, body.val)
      Body(body) ==
        IF ~body.ok THEN body
        ELSE Close(body,
                   Consume(c, body.p, "RIGHT_BRACE", "Expected } after workflow definition"))
  IN IF ~keyword.ok THEN keyword
     ELSE IF ~name.ok THEN name
     ELSE IF ~open.ok THEN open
     ELSE Body(WorkflowLoop(c, AfterNow(open.p), wf))

\* parse(source) once tokenize has run (lexed), with the clock readings and
\* random draws it will see: what it returns or throws, and the fields of the
\* parser it leaves behind
ParseOutcome(lexed, nows, rands) ==
  LET Outcome(run) ==
        [status |-> IF run.ok THEN "ok" ELSE "error",
         workflow |-> IF run.ok THEN run.val ELSE EmptyWorkflow,
         error |-> run.error,
         parser |-> [lexed.lx EXCEPT !.current = run.p.cur],
         nows |-> run.p.n, rands |-> run.p.r]
  IN IF ~lexed.ok
       THEN [status |-> "error", workflow |-> EmptyWorkflow, error |-> lexed.error,
             parser |-> lexed.lx,
             nows |-> 0, rands |-> 0]
     ELSE Outcome(ParseWorkflow([tokens |-> lexed.lx.tokens, nows |-> nows, rands |-> rands],
                                [cur |-> lexed.lx.current, n |-> 0, r |-> 0]))

\* how many times the parse of these tokens calls Date.now() and Math.random():
\* one call per workflow, track and node reached, whatever the calls return
DrawsMade(lexed) ==
  LET Filler == [i \in 1..Len(lexed.lx.tokens) |-> 0]
      Made(run) == [nows |-> run.nows, rands |-> run.rands]
  IN Made(ParseOutcome(lexed, Filler, Filler))

\* Date.now() over one parse of k readings: the same millisecond throughout,
\* or a later one at every reading
ClockRuns(k) == {[i \in 1..k |-> 1], [i \in 1..k |-> i]}

\* Math.floor(Math.random() * 10000) over one parse of k draws: every draw
\* the same outcome, or every draw another one
RandomRuns(k) == {[i \in 1..k |-> 0], [i \in 1..k |-> i - 1]}

-----------------------------------------------------------------------------
(* dsl/dsl-generator.ts: DslGenerator                                      *)

\* ' '.repeat(indent)
RECURSIVE Spaces(_)
Spaces(indent) == IF indent <= 0 THEN "" ELSE " " \o Spaces(indent - 1)

\* if (x) on an optional string: set and not empty
Truthy(o) == IsSome(o) /\ Get(o) # ""

\* stringifyValue(value)
RECURSIVE StringifyValue(_), StringifyItems(_, _), StringifyEntries(_, _)
StringifyValue(value) ==
  CASE value.kind = "string" -> "\"" \o value.val \o "\""
    [] value.kind = "array" -> "[" \o StringifyItems(value.val, 1) \o "]"
    [] value.kind = "object" -> "{\n" \o StringifyEntries(value.val, 1) \o "  }"
    [] value.kind = "number" -> NumberToString(value.val)
    [] value.kind = "boolean" -> IF value.val THEN "true" ELSE "false"

\* value.map(v => this.stringifyValue(v)).join(', ')
StringifyItems(items, i) ==
  IF i > Len(items) THEN ""
  ELSE StringifyValue(items[i]) \o (IF i < Len(items) THEN ", " ELSE "")
         \o StringifyItems(items, i + 1)

\* the for loop of stringifyValue over Object.entries(value)
StringifyEntries(entries, i) ==
  IF i > Len(entries) THEN ""
  ELSE "    " \o entries[i].key \o ": " \o StringifyValue(entries[i].value) \o "\n"
         \o StringifyEntries(entries, i + 1)

\* the switch of generateConditionExpression
OperatorText(operator) ==
  CASE operator = "equals" -> "=="
    [] operator = "not_equals" -> "!="
    [] operator = "greater_than" -> ">"
    [] operator = "less_than" -> "<"
    [] operator = "greater_than_or_equals" -> ">="
    [] operator = "less_than_or_equals" -> "<="
    [] operator \in {"contains", "not_contains", "starts_with", "ends_with", "regex"} -> operator
    [] OTHER -> "undefined"

\* generateConditionExpression(condition)
GenerateConditionExpression(condition) ==
  condition.leftOperand \o " " \o OperatorText(condition.operator) \o " "
    \o StringifyValue(condition.rightOperand)

\* generateTrack(track, indent)
GenerateTrack(track, indent) ==
  Spaces(indent) \o "track \"" \o track.name \o "\" {\n"
    \o (IF Truthy(track.description)
          THEN Spaces(indent) \o "  description \"" \o Get(track.description) \o "\"\n"
          ELSE "")
    \o Spaces(indent) \o "}\n"

\* the for loop of generateTaskProperties over Object.entries(node.parameters)
RECURSIVE GenerateParameters(_, _, _)
GenerateParameters(entries, i, spaces) ==
  IF i > Len(entries) THEN ""
  ELSE spaces \o "  " \o entries[i].key \o ": " \o StringifyValue(entries[i].value) \o "\n"
         \o GenerateParameters(entries, i + 1, spaces)

\* generateTaskProperties(node, indent)
GenerateTaskProperties(node, indent) ==
  LET spaces == Spaces(indent)
  IN (IF Truthy(node.taskType) THEN spaces \o "type \"" \o Get(node.taskType) \o "\"\n" ELSE "")
     \o (IF IsSome(node.parameters)
           THEN spaces \o "parameters {\n" \o GenerateParameters(Get(node.parameters), 1, spaces)
                  \o spaces \o "}\n"
           ELSE "")
     \o (IF IsSome(node.timeout)
           THEN spaces \o "timeout " \o NumberToString(Get(node.timeout)) \o "\n" ELSE "")
     \o (IF IsSome(node.retries)
           THEN spaces \o "retries " \o NumberToString(Get(node.retries)) \o "\n" ELSE "")

\* the for loop of generateDecisionProperties over node.conditions
RECURSIVE GenerateConditions(_, _, _)
GenerateConditions(conditions, i, spaces) ==
  IF i > Len(conditions) THEN ""
  ELSE spaces \o "condition \"" \o GenerateConditionExpression(conditions[i])
         \o "\" then \""
         \o (IF IsSome(conditions[i].targetName) THEN Get(conditions[i].targetName) ELSE "")
         \o "\"\n" \o GenerateConditions(conditions, i + 1, spaces)

\* generateDecisionProperties(node, indent)
GenerateDecisionProperties(node, indent) ==
  LET spaces == Spaces(indent)
  IN GenerateConditions(node.conditions, 1, spaces)
     \o (IF Truthy(node.defaultTargetId)
           THEN spaces \o "default \"" \o Get(node.defaultTargetId) \o "\"\n" ELSE "")

\* generateSyncPointProperties(node, indent)
GenerateSyncPointProperties(node, indent) ==
  LET spaces == Spaces(indent)
  IN IF ~IsSome(node.config) THEN ""
     ELSE (IF IsSome(Get(node.config).waitForAll)
             THEN spaces \o "wait_for_all "
                    \o (IF Get(Get(node.config).waitForAll) THEN "true" ELSE "false") \o "\n"
             ELSE "")
          \o (IF IsSome(Get(node.config).timeout)
                THEN spaces \o "timeout " \o NumberToString(Get(Get(node.config).timeout)) \o "\n"
                ELSE "")

\* generateResourceRequirement(resource, indent)
GenerateResourceRequirement(resource, indent) ==
  LET resourceName ==
        IF resource.resourceType \in {"cpu", "memory", "gpu"} THEN resource.resourceType
        ELSE IF Truthy(resource.resourceId) THEN Get(resource.resourceId) ELSE "custom"
  IN Spaces(indent) \o resourceName \o ": " \o NumberToString(resource.amount) \o "\n"

\* the for loop of generateNode over node.resourceRequirements
RECURSIVE GenerateResources(_, _, _)
GenerateResources(resources, i, indent) ==
  IF i > Len(resources) THEN ""
  ELSE GenerateResourceRequirement(resources[i], indent)
         \o GenerateResources(resources, i + 1, indent)

\* the keyword the first switch of generateNode writes
NodeKeyword(type) == IF type = "sync_point" THEN "sync" ELSE type

\* generateNode(node, indent)
GenerateNode(node, indent) ==
  LET spaces == Spaces(indent)
  IN spaces \o NodeKeyword(node.type) \o " \"" \o node.name \o "\" {\n"
     \o (IF Truthy(node.description)
           THEN spaces \o "  description \"" \o Get(node.description) \o "\"\n" ELSE "")
     \o (IF Truthy(node.trackId)
           THEN spaces \o "  track \"" \o Get(node.trackId) \o "\"\n" ELSE "")
     \o (CASE node.type = "task" -> GenerateTaskProperties(node, indent + 2)
           [] node.type = "decision" -> GenerateDecisionProperties(node, indent + 2)
           [] node.type = "sync_point" -> GenerateSyncPointProperties(node, indent + 2)
           [] OTHER -> "")
     \o (IF IsSome(node.resourceRequirements) /\ Len(Get(node.resourceRequirements)) > 0
           THEN spaces \o "  resources {\n"
                  \o GenerateResources(Get(node.resourceRequirements), 1, indent + 4)
                  \o spaces \o "  }\n"
           ELSE "")
     \o spaces \o "}\n"

\* nodeMap.get(id) || id: the name of the last node with that id, when not empty
NameOrId(nodes, id) ==
  LET at == {i \in 1..Len(nodes) : nodes[i].id = id}
      last == CHOOSE i \in at : \A j \in at : j <= i
  IN IF at # {} /\ nodes[last].name # "" THEN nodes[last].name ELSE id

\* the for loop of generateDependencies over dependencies
RECURSIVE GenerateDependencyLines(_, _, _, _)
GenerateDependencyLines(dependencies, nodes, i, spaces) ==
  IF i > Len(dependencies) THEN ""
  ELSE LET dep == dependencies[i]
       IN spaces \o "  \"" \o NameOrId(nodes, dep.sourceId) \o "\" -> \""
            \o NameOrId(nodes, dep.targetId) \o "\""
            \o (IF dep.type = "conditional" /\ IsSome(dep.condition)
                  THEN " when \"" \o GenerateConditionExpression(Get(dep.condition)) \o "\""
                ELSE IF dep.type = "conditional" THEN " default"
                ELSE "")
            \o "\n" \o GenerateDependencyLines(dependencies, nodes, i + 1, spaces)

\* generateDependencies(dependencies, nodes, indent)
GenerateDependencies(dependencies, nodes, indent) ==
  Spaces(indent) \o "dependencies {\n"
    \o GenerateDependencyLines(dependencies, nodes, 1, Spaces(indent))
    \o Spaces(indent) \o "}\n"

\* the for loops of generate over workflow.tracks and workflow.nodes
RECURSIVE GenerateTracks(_, _), GenerateNodes(_, _)
GenerateTracks(tracks, i) ==
  IF i > Len(tracks) THEN ""
  ELSE GenerateTrack(tracks[i], 2) \o "\n" \o GenerateTracks(tracks, i + 1)

GenerateNodes(nodes, i) ==
  IF i > Len(nodes) THEN ""
  ELSE GenerateNode(nodes[i], 2) \o "\n" \o GenerateNodes(nodes, i + 1)

\* generate(workflow)
GenerateDsl(wf) ==
  "workflow \"" \o wf.name \o "\" {\n"
    \o (IF Truthy(wf.description) THEN "  description \"" \o Get(wf.description) \o "\"\n" ELSE "")
    \o (IF Truthy(wf.version) THEN "  version \"" \o Get(wf.version) \o "\"\n" ELSE "")
    \o "\n"
    \o (IF Len(wf.tracks) > 0
          THEN "  // Define tracks for parallel execution\n" \o GenerateTracks(wf.tracks, 1)
          ELSE "")
    \o (IF Len(wf.nodes) > 0 THEN "  // Define nodes\n" \o GenerateNodes(wf.nodes, 1) ELSE "")
    \o (IF Len(wf.dependencies) > 0
          THEN "  // Define dependencies\n"
                 \o GenerateDependencies(wf.dependencies, wf.nodes, 2)
          ELSE "")
    \o "}\n"

-----------------------------------------------------------------------------
(* dsl/dsl-parser.ts: the parser instance as constructed                   *)

FreshParser == [tokens |-> <<>>, current |-> 0, line |-> 1, column |-> 1]

NoParse == [status |-> "none", workflow |-> EmptyWorkflow, error |-> ""]

\* no core model object has been made, calculateNodeLevels has not been called
NoModel == "none"
NoLayout == "none"

DslIdle == /\ source = ""
           /\ parser = FreshParser
           /\ parsed = NoParse
           /\ before = "none"
           /\ model = NoModel
           /\ layout = NoLayout

-----------------------------------------------------------------------------
(* Workflows handed to the validators                                      *)

\* node ids of the workflows handed to the cycle detector / to the service
NodeUniverse == <<"a", "b", "c">>
ValNodeUniverse == <<"a", "b">>

DependencyTypeSeq == <<"sequential", "conditional", "sync">>

\* dependency lists over the given node ids: endpoints are node ids, at most
\* maxLen entries, types assigned in rotation from a starting type in Rot
DependencyLists(ids, maxLen, Rot) ==
  UNION {
    { [i \in 1..k |->
         MkDependency(e[i][1], e[i][2], DependencyTypeSeq[((i + r) % 3) + 1])]
      : e \in [1..k -> ids \X ids], r \in Rot }
    : k \in 0..maxLen }

NodeLists(universe, Types) ==
  UNION {
    { [i \in 1..k |-> MkNode(universe[i], t[i], "N" \o universe[i])]
      : t \in [1..k -> Types] }
    : k \in 0..Len(universe) }

GraphWorkflows(universe, Types, maxLen, Rot) ==
  { MkWorkflow("workflow-1", "W", ns, ds, <<>>)
    : <<ns, ds>> \in
        UNION { {ns2} \X DependencyLists({ns2[i].id : i \in 1..Len(ns2)}, maxLen, Rot)
                : ns2 \in NodeLists(universe, Types) } }

-----------------------------------------------------------------------------
(* Cycle detection: the validator and the service method called directly   *)

InitCycle ==
  /\ workflow \in GraphWorkflows(NodeUniverse, {"task"}, MaxDeps, 0..2)
  /\ validators = <<>>
  /\ op = "none"
  /\ result = NoResult
  /\ errors = <<>>
  /\ DslIdle

\* new CircularDependencyValidator().validate(workflow)
Validate ==
  /\ errors' = CircularDependencyValidate(workflow)
  /\ op' = "validate"
  /\ UNCHANGED <<workflow, validators, result, source, parser, parsed, before, model, layout>>

\* validationService.checkCircularDependencies(workflow)
CheckCircular ==
  /\ errors' = CheckCircularDependencies(workflow)
  /\ op' = "checkCircularDependencies"
  /\ UNCHANGED <<workflow, validators, result, source, parser, parsed, before, model, layout>>

NextCycle == Validate \/ CheckCircular

SpecCycle == InitCycle /\ [][NextCycle]_vars

-----------------------------------------------------------------------------
(* The validation service with its registry                                *)

InitValidate ==
  /\ workflow \in GraphWorkflows(ValNodeUniverse, {"start", "end", "task"}, MaxValDeps, {0})
  /\ validators = <<>>
  /\ op = "none"
  /\ result = NoResult
  /\ errors = <<>>
  /\ DslIdle

\* validationService.registerValidator(validator)
RegisterValidator ==
  /\ Len(validators) < MaxValidators
  /\ \E v \in ValidatorKinds : validators' = Append(validators, v)
  /\ op' = "registerValidator"
  /\ UNCHANGED <<workflow, result, errors, source, parser, parsed, before, model, layout>>

\* validationService.validateWorkflow(workflow)
DoValidateWorkflow ==
  /\ result' = ValidateWorkflow(validators, workflow)
  /\ op' = "validateWorkflow"
  /\ UNCHANGED <<workflow, validators, errors, source, parser, parsed, before, model, layout>>

\* a slip that filters workflow.nodes in place while looking for orphans
CheckOrphanedInPlace ==
  LET NonTerminal(node) == node.type \notin {"start", "end"}
  IN /\ errors' = CheckOrphanedNodes(workflow)
     /\ workflow' = [workflow EXCEPT !.nodes = SelectSeq(@, NonTerminal)]
     /\ op' = "checkOrphanedNodes"
     /\ UNCHANGED <<validators, result, source, parser, parsed, before, model, layout>>

\* validationService.checkOrphanedNodes(workflow)
CheckOrphaned ==
  /\ errors' = CheckOrphanedNodes(workflow)
  /\ op' = "checkOrphanedNodes"
  /\ UNCHANGED <<workflow, validators, result, source, parser, parsed, before, model, layout>>

NextValidate == RegisterValidator \/ DoValidateWorkflow \/ CheckOrphaned

SpecValidate == InitValidate /\ [][NextValidate]_vars

-----------------------------------------------------------------------------
(* The DSL engine: generate and parse                                      *)

\* the entries of seq at the positions in S, in order
RECURSIVE PickFrom(_, _, _)
PickFrom(seq, S, i) ==
  IF i > Len(seq) THEN <<>>
  ELSE (IF i \in S THEN <<seq[i]>> ELSE <<>>) \o PickFrom(seq, S, i + 1)

\* the subsequences of seq of at most max entries
Picks(seq, max) ==
  {PickFrom(seq, S, 1) : S \in {T \in SUBSET (1..Len(seq)) : Cardinality(T) <= max}}

\* Resolved workflows handed to the generator: unique node and track names,
\* every reference an id.  f says which optional parts are present.
RoundTripNodes(f) ==
  << [MkNode("n1", "start", "A") EXCEPT
        !.trackId = IF f.track THEN Some("t1") ELSE None],
     [MkNode("n2", "task", "B") EXCEPT
        !.taskType = Some("x"),
        !.timeout = Some(MkNumber(30, "")),
        !.retries = IF f.retries THEN Some(MkNumber(3, "")) ELSE None] >>
  \o (IF f.decision
        THEN << [MkNode("n3", "decision", "D") EXCEPT
                   !.conditions =
                      <<MkCondition("s", "greater_than", NumberValue(MkNumber(1, "")),
                                    Some("B"))>>,
                   !.defaultTargetId = Some("n1")] >>
        ELSE <<>>)

RoundTripTracks(f) ==
  IF f.track THEN <<[MkTrack("t1", "T") EXCEPT !.nodeIds = <<"n1">>]>> ELSE <<>>

RoundTripDependencies ==
  << MkDependency("n1", "n2", "sequential"),
     MkDependency("n2", "n1", "sync"),
     [MkDependency("n2", "n1", "conditional") EXCEPT !.isDefault = Some(TRUE)],
     [MkDependency("n1", "n2", "conditional") EXCEPT
        !.condition = Some(MkCondition("x", "equals", NumberValue(MkNumber(1, "")), None))] >>

RoundTripWorkflows ==
  { MkWorkflow("workflow-1", "W", RoundTripNodes(f), ds, RoundTripTracks(f))
    : f \in [track : BOOLEAN, retries : BOOLEAN, decision : BOOLEAN],
      ds \in Picks(RoundTripDependencies, MaxDslDeps) }

\* Hand-written documents: a workflow block holding some of these elements,
\* in this order.  The decision names nodes defined after it; "Q" and "Z" are
\* defined by no element.
DslElements ==
  << "  track \"T\" { }\n",
     "  decision \"D\" {\n    condition \"s > 1\" then \"B\"\n    default \"C\"\n  }\n",
     "  start \"A\" { track \"T\" }\n",
     "  task \"B\" { type \"x\" }\n",
     "  end \"C\" { }\n",
     "  task \"U\" { track \"Q\" }\n",
     "  dependencies { \"A\" -> \"B\" }\n",
     "  dependencies { \"B\" -> \"Z\" }\n" >>

RECURSIVE Concat(_, _)
Concat(strings, i) == IF i > Len(strings) THEN "" ELSE strings[i] \o Concat(strings, i + 1)

DslDocs ==
  {"workflow \"W\" {\n" \o Concat(es, 1) \o "}\n" : es \in Picks(DslElements, MaxElements)}

InitDsl ==
  /\ \/ workflow \in RoundTripWorkflows /\ source = ""
     \/ workflow = EmptyWorkflow /\ source \in DslDocs
  /\ parser = FreshParser
  /\ parsed = NoParse
  /\ before = "none"
  /\ model = NoModel
  /\ layout = NoLayout
  /\ validators = <<>>
  /\ op = "none"
  /\ result = NoResult
  /\ errors = <<>>

\* source = dslGenerator.generate(workflow)
Generate ==
  /\ source' = GenerateDsl(workflow)
  /\ op' = "generate"
  /\ UNCHANGED <<workflow, validators, result, errors, parser, parsed, before, model, layout>>

\* how a parse call ended, as the next call on the same parser finds it
Ended(outcome) ==
  IF outcome.status # "error" THEN outcome.status
  ELSE IF Len(outcome.error) >= 20 /\ SubSeq(outcome.error, 1, 20) = "Unexpected character"
    THEN "lexical error"
  ELSE "parse error"

\* dslParser.parse(text): the workflow it returns or the error it throws
ParseText(text) ==
  LET lexed == Tokenize(parser, text)
      Returns(outcome) ==
        /\ parsed' = [status |-> outcome.status, workflow |-> outcome.workflow,
                      error |-> outcome.error]
        /\ parser' = outcome.parser
        /\ before' = Ended(parsed)
        /\ source' = text
        /\ op' = "parse"
        /\ UNCHANGED <<workflow, validators, result, errors, model, layout>>
      Runs(made) ==
        \E nows \in ClockRuns(made.nows), rands \in RandomRuns(made.rands) :
          Returns(ParseOutcome(lexed, nows, rands))
  IN Runs(DrawsMade(lexed))

\* dslParser.parse(source)
Parse == ParseText(source)

NextDsl == Generate \/ Parse

SpecDsl == InitDsl /\ [][NextDsl]_vars

-----------------------------------------------------------------------------
(* Graph notions the claims are stated with, defined without the validators *)

NodeIdsOf(wf) == {wf.nodes[i].id : i \in 1..Len(wf.nodes)}

EdgesOf(wf) ==
  {<<wf.dependencies[i].sourceId, wf.dependencies[i].targetId>>
     : i \in 1..Len(wf.dependencies)}

\* b is reached from a by a walk of 1..k edges
RECURSIVE ReachableIn(_, _, _, _)
ReachableIn(E, a, b, k) ==
  /\ k >= 1
  /\ \/ <<a, b>> \in E
     \/ \E e \in E : e[1] = a /\ ReachableIn(E, e[2], b, k - 1)

HasCycle(wf) ==
  \E n \in NodeIdsOf(wf) : ReachableIn(EdgesOf(wf), n, n, Cardinality(NodeIdsOf(wf)))

PositionIn(seq, x) == CHOOSE i \in 1..Len(seq) : seq[i] = x

\* the simple cycles of the dependency graph, each listed once, from its first
\* node in node-list order
SimpleCycles(wf) ==
  LET ids == NodeIdsOf(wf)
      order == [i \in 1..Len(wf.nodes) |-> wf.nodes[i].id]
      E == EdgesOf(wf)
  IN { c \in UNION {[1..k -> ids] : k \in 1..Cardinality(ids)} :
         /\ \A i, j \in 1..Len(c) : i # j => c[i] # c[j]
         /\ \A i \in 1..Len(c) : <<c[i], c[(i % Len(c)) + 1]>> \in E
         /\ \A i \in 2..Len(c) : PositionIn(order, c[1]) < PositionIn(order, c[i]) }

Rotations(c) ==
  {[i \in 1..Len(c) |-> c[((i + r - 1) % Len(c)) + 1]] : r \in 0..(Len(c) - 1)}

\* the messages that name the cycle c: its nodes in traversal order from any
\* node of it, closed by that node
CycleMessages(c) ==
  {"Circular dependency detected: " \o Join(r \o <<r[1]>>, " -> ") : r \in Rotations(c)}

CircularErrors(errs) ==
  LET IsCircular(e) == e.code = "circular_dependency"
  IN SelectSeq(errs, IsCircular)

DirectCycleCall == op \in {"validate", "checkCircularDependencies"}

-----------------------------------------------------------------------------
(* Name references, as the claims about the DSL read them                  *)

NodeNamesOf(wf) == {wf.nodes[i].name : i \in 1..Len(wf.nodes)}
TrackNamesOf(wf) == {wf.tracks[i].name : i \in 1..Len(wf.tracks)}

ParseAccepted == op = "parse" /\ parsed.status = "ok"

\* what a dependency endpoint stands for: the name of the node whose id it
\* is, and the endpoint itself when it is no node's id
EndpointName(wf, endpoint) ==
  IF \E i \in 1..Len(wf.nodes) : wf.nodes[i].id = endpoint
    THEN wf.nodes[CHOOSE i \in 1..Len(wf.nodes) : wf.nodes[i].id = endpoint].name
    ELSE endpoint

\* the track a node is a member of, by name: through trackId when that is a
\* track's id, else the track reference the node carries, if any
MembershipOf(wf, node) ==
  IF IsSome(node.trackId) /\ \E j \in 1..Len(wf.tracks) : wf.tracks[j].id = Get(node.trackId)
    THEN Some(wf.tracks[CHOOSE j \in 1..Len(wf.tracks) :
                          wf.tracks[j].id = Get(node.trackId)].name)
  ELSE IF IsSome(node.trackName) THEN node.trackName
  ELSE node.trackId

\* every name the workflow refers to and no element defines
DanglingReferences(wf) ==
  LET nodes == 1..Len(wf.nodes)
      known == NodeNamesOf(wf) \cup NodeIdsOf(wf)
  IN UNION {
       {wf.dependencies[i].sourceId : i \in 1..Len(wf.dependencies)} \ known,
       {wf.dependencies[i].targetId : i \in 1..Len(wf.dependencies)} \ known,
       {Get(wf.nodes[i].trackName) : i \in {k \in nodes : IsSome(wf.nodes[k].trackName)}}
         \ TrackNamesOf(wf),
       {Get(wf.nodes[i].defaultTargetName)
          : i \in {k \in nodes : IsSome(wf.nodes[k].defaultTargetName)}} \ NodeNamesOf(wf),
       UNION {{Get(wf.nodes[i].conditions[k].targetName)
                 : k \in {m \in 1..Len(wf.nodes[i].conditions)
                            : IsSome(wf.nodes[i].conditions[m].targetName)}}
              : i \in nodes} \ NodeNamesOf(wf) }

-----------------------------------------------------------------------------
(* C1 *)

\* C1: for every text DslParser.parse accepts, every dependency of the
\* returned workflow has a sourceId and a targetId that are each the id of a
\* node of the returned workflow.
C1_EndpointsAreNodeIds ==
  ParseAccepted =>
    \A i \in 1..Len(parsed.workflow.dependencies) :
      /\ parsed.workflow.dependencies[i].sourceId \in NodeIdsOf(parsed.workflow)
      /\ parsed.workflow.dependencies[i].targetId \in NodeIdsOf(parsed.workflow)

-----------------------------------------------------------------------------
(* C2 *)

\* C2: after DslParser.parse succeeds, a node declared with track "T", T a
\* parsed track, has that track's id as trackId and is listed in that track's
\* nodeIds; a decision's default target and each of its condition targets,
\* when they name a parsed node (defined before or after the decision), are
\* bound to that node's id.  A Condition carries its target in
\* metadata.targetName and nowhere else, so that is where the id must be.
C2_ReferencesBound ==
  ParseAccepted =>
    LET wf == parsed.workflow
    IN \A i \in 1..Len(wf.nodes) :
         LET node == wf.nodes[i]
         IN /\ (IsSome(node.trackName) /\ Get(node.trackName) \in TrackNamesOf(wf))
                 => \E j \in 1..Len(wf.tracks) :
                      /\ wf.tracks[j].name = Get(node.trackName)
                      /\ node.trackId = Some(wf.tracks[j].id)
                      /\ node.id \in Range(wf.tracks[j].nodeIds)
            /\ (IsSome(node.defaultTargetName)
                  /\ Get(node.defaultTargetName) \in NodeNamesOf(wf))
                 => \E m \in 1..Len(wf.nodes) :
                      /\ wf.nodes[m].name = Get(node.defaultTargetName)
                      /\ node.defaultTargetId = Some(wf.nodes[m].id)
            /\ \A k \in 1..Len(node.conditions) :
                 (IsSome(node.conditions[k].targetName)
                    /\ Get(node.conditions[k].targetName) \in NodeNamesOf(wf))
                   => \E m \in 1..Len(wf.nodes) :
                        /\ wf.nodes[m].name = Get(node.conditions[k].targetName)
                        /\ node.conditions[k].targetName = Some(wf.nodes[m].id)

-----------------------------------------------------------------------------
(* C3 *)

\* C3: DslParser.parse returns no workflow when a dependency endpoint, a
\* node's track reference, a decision condition target or a decision default
\* target names a node or track that the document defines nowhere: a workflow
\* it returns has no such reference.
C3_DanglingReferenceRejected ==
  ParseAccepted => DanglingReferences(parsed.workflow) = {}

-----------------------------------------------------------------------------
(* C4 *)

\* nodes compared by name, type and properties
NodeView(node) ==
  [name |-> node.name, type |-> node.type, taskType |-> node.taskType,
   parameters |-> node.parameters, timeout |-> node.timeout, retries |-> node.retries,
   resourceRequirements |-> node.resourceRequirements]

NodeViews(wf) == {NodeView(wf.nodes[i]) : i \in 1..Len(wf.nodes)}

Memberships(wf) ==
  {<<wf.nodes[i].name, MembershipOf(wf, wf.nodes[i])>> : i \in 1..Len(wf.nodes)}

\* dependencies compared by source name, target name, type and condition
DependencyViews(wf) ==
  {[source |-> EndpointName(wf, wf.dependencies[i].sourceId),
    target |-> EndpointName(wf, wf.dependencies[i].targetId),
    type |-> wf.dependencies[i].type,
    condition |-> wf.dependencies[i].condition] : i \in 1..Len(wf.dependencies)}

Isomorphic(w1, w2) ==
  /\ NodeViews(w1) = NodeViews(w2)
  /\ Memberships(w1) = Memberships(w2)
  /\ DependencyViews(w1) = DependencyViews(w2)

\* C4: for a workflow w with unique node and track names,
\* DslParser.parse(DslGenerator.generate(w)) succeeds and yields a workflow
\* with the same nodes by name, type and properties, the same track
\* membership of each node and the same set of dependencies by source name,
\* target name, type and condition.
C4_RoundTrip ==
  (op = "parse" /\ workflow \in RoundTripWorkflows /\ source = GenerateDsl(workflow))
    => (parsed.status = "ok" /\ Isomorphic(workflow, parsed.workflow))

-----------------------------------------------------------------------------
(* C5 *)

\* C5: for a workflow whose dependency endpoints are node ids,
\* CircularDependencyValidator.validate returns at least one
\* circular_dependency error exactly when the graph of all dependencies, of
\* every type and self-loops included, has a directed cycle.
C5_CycleReportedIffCyclic ==
  op = "validate" => ((CircularErrors(errors) # <<>>) <=> HasCycle(workflow))

\* a cycle of three nodes whose three edges have the three dependency types,
\* validated and reported
C5_Witness ==
  /\ op = "validate"
  /\ CircularErrors(errors) # <<>>
  /\ \E c \in SimpleCycles(workflow) : Len(c) = 3
  /\ Len(workflow.dependencies) = 3
  /\ {workflow.dependencies[i].type : i \in 1..3} = DependencyTypes

-----------------------------------------------------------------------------
(* C6 *)

\* C6: when the dependency graph has exactly one simple cycle,
\* CircularDependencyValidator.validate returns exactly one
\* circular_dependency error and that error names exactly the nodes of the cycle.
C6_OneCycleOneError ==
  (op = "validate" /\ Cardinality(SimpleCycles(workflow)) = 1) =>
     /\ Len(CircularErrors(errors)) = 1
     /\ \A c \in SimpleCycles(workflow) :
          CircularErrors(errors)[1].message \in CycleMessages(c)

-----------------------------------------------------------------------------
(* C7 *)

\* the entries are the edges of one closed walk over the node ids
ClosedWalk(entries, ids) ==
  \E w \in [1..(Len(entries) + 1) -> ids] :
     /\ w[1] = w[Len(entries) + 1]
     /\ \A i \in 1..Len(entries) : entries[i] = w[i] \o "->" \o w[i + 1]

\* C7: every circular_dependency error describes a real cycle: each entry s->t
\* of its dependencyIds is a dependency of the workflow from s to t, and the
\* entries in order form one closed walk.
C7_ErrorIsRealCycle ==
  DirectCycleCall =>
    \A i \in 1..Len(errors) :
      errors[i].code = "circular_dependency" =>
        /\ \A j \in 1..Len(errors[i].dependencyIds) :
             \E e \in EdgesOf(workflow) :
                errors[i].dependencyIds[j] = e[1] \o "->" \o e[2]
        /\ ClosedWalk(errors[i].dependencyIds, NodeIdsOf(workflow))

-----------------------------------------------------------------------------
(* C8, C9 *)

\* the registry holds the validators the package defines, and only those
PackageValidatorsRegistered ==
  /\ validators # <<>>
  /\ Range(validators) = {"CircularDependencyValidator"}

OrphanIds(wf) ==
  { n.id : n \in { m \in Range(wf.nodes) :
                     /\ m.type \notin {"start", "end"}
                     /\ \A e \in EdgesOf(wf) : e[1] # m.id /\ e[2] # m.id } }

ReportedOrphanIds(errs) ==
  {Get(errs[i].nodeId) : i \in {j \in 1..Len(errs) : errs[j].code = "orphaned_node"}}

\* C8: validateWorkflow with the package's validators registered reports
\* orphaned_node for exactly the nodes that are neither Start nor End and have
\* no incoming and no outgoing dependency.
C8_OrphansReported ==
  (op = "validateWorkflow" /\ PackageValidatorsRegistered) =>
     ReportedOrphanIds(result.errors) = OrphanIds(workflow)

CountOfType(wf, type) == Cardinality({i \in 1..Len(wf.nodes) : wf.nodes[i].type = type})

\* one Start node, one End node, nothing else, a path from Start to End, no cycle
StartToEndOnly(wf) ==
  /\ Len(wf.nodes) = 2
  /\ CountOfType(wf, "start") = 1
  /\ CountOfType(wf, "end") = 1
  /\ ~HasCycle(wf)
  /\ \E s, e \in NodeIdsOf(wf) :
       /\ \E i \in 1..2 : wf.nodes[i].id = s /\ wf.nodes[i].type = "start"
       /\ \E i \in 1..2 : wf.nodes[i].id = e /\ wf.nodes[i].type = "end"
       /\ ReachableIn(EdgesOf(wf), s, e, 2)

\* C9: validating a workflow with zero Start nodes or zero End nodes yields
\* valid = false; one Start, one End, an acyclic path between them and no
\* other node yields valid = true.
C9_StartEndWellFormed ==
  (op = "validateWorkflow" /\ PackageValidatorsRegistered) =>
     /\ (CountOfType(workflow, "start") = 0 \/ CountOfType(workflow, "end") = 0)
          => ~result.valid
     /\ StartToEndOnly(workflow) => result.valid

-----------------------------------------------------------------------------
(* C10 *)

RECURSIVE Flatten(_)
Flatten(lists) ==
  IF lists = <<>> THEN <<>> ELSE Head(lists) \o Flatten(Tail(lists))

CountIn(seq, x) == Cardinality({i \in 1..Len(seq) : seq[i] = x})

SameBag(s, t) ==
  /\ Len(s) = Len(t)
  /\ \A x \in Range(s) \cup Range(t) : CountIn(s, x) = CountIn(t, x)

Reorderings(seq) ==
  {p \in [1..Len(seq) -> Range(seq)] : SameBag(p, seq)}

\* C10: validateWorkflow returns the concatenation, in registration order, of
\* every registered validator's error list, valid is true exactly when that
\* concatenation is empty, and neither the flag nor the multiset of errors
\* depends on the order of registration.
C10_RegistryConcatenates ==
  op = "validateWorkflow" =>
    /\ result.errors =
         Flatten([i \in 1..Len(validators) |-> ValidatorValidate(validators[i], workflow)])
    /\ result.valid <=> (result.errors = <<>>)
    /\ \A p \in Reorderings(validators) :
         /\ ValidateWorkflow(p, workflow).valid = result.valid
         /\ SameBag(ValidateWorkflow(p, workflow).errors, result.errors)

\* two different validators registered, both reporting, the first one's
\* errors first
C10_Witness ==
  /\ op = "validateWorkflow"
  /\ validators = <<"CircularDependencyValidator", "CustomValidator">>
  /\ Len(result.errors) >= 2
  /\ result.errors[1].code = "circular_dependency"
  /\ result.errors[Len(result.errors)].code = "invalid_dependency"
  /\ ~result.valid

-----------------------------------------------------------------------------
(* C11 *)

\* every method of the validator and of the service, called in any order on
\* one workflow
NextFrame == Validate \/ CheckCircular \/ RegisterValidator \/ DoValidateWorkflow \/ CheckOrphaned

SpecFrame == InitValidate /\ [][NextFrame]_vars

ValidationCalls ==
  {"validate", "checkCircularDependencies", "checkOrphanedNodes", "validateWorkflow"}

\* C11: CircularDependencyValidator.validate, checkCircularDependencies,
\* checkOrphanedNodes and validateWorkflow leave the workflow as it was: its
\* nodes, dependencies and tracks after the call are those before the call.
C11_WorkflowUnchanged ==
  [][op' \in ValidationCalls =>
       /\ workflow'.nodes = workflow.nodes
       /\ workflow'.dependencies = workflow.dependencies
       /\ workflow'.tracks = workflow.tracks]_vars

\* a workflow with a cycle and an orphaned task, after validateWorkflow ran a
\* registered validator over it and reported
C11_Witness ==
  /\ op = "validateWorkflow"
  /\ validators # <<>>
  /\ ~result.valid
  /\ Len(workflow.nodes) = 2
  /\ Len(workflow.dependencies) = 2
  /\ HasCycle(workflow)

-----------------------------------------------------------------------------
(* C12 *)

\* an id that no node of any workflow carries
NoNodeId == "z"

\* workflows as any caller may build them: self-loops, duplicate dependencies,
\* cycles, and endpoints that are the id of no node
LooseWorkflows ==
  { MkWorkflow("workflow-1", "W", ns, ds, <<>>)
    : ns \in NodeLists(ValNodeUniverse, {"task"}),
      ds \in DependencyLists(Range(ValNodeUniverse) \cup {NoNodeId}, MaxLooseDeps, {0}) }

InitLoose ==
  /\ workflow \in LooseWorkflows
  /\ validators = <<>>
  /\ op = "none"
  /\ result = NoResult
  /\ errors = <<>>
  /\ DslIdle

SpecLoose == InitLoose /\ [][NextCycle]_vars

\* C12: CircularDependencyValidator.validate returns, for every finite
\* workflow (cycles, self-loops, duplicate dependencies and endpoints that are
\* no node's id included), a list of circular_dependency errors: it throws
\* nothing, and the traversal ends after at most one report per node of the
\* workflow, each report a message and the list of the edges it names.
C12_ValidateReturnsErrors ==
  op = "validate" =>
    /\ Len(errors) <= Len(workflow.nodes)
    /\ \A i \in 1..Len(errors) :
         /\ errors[i].code = "circular_dependency"
         /\ SubSeq(errors[i].message, 1, 30) = "Circular dependency detected: "
         /\ Len(errors[i].dependencyIds) >= 2

\* validate has returned on a workflow with a self-loop listed twice and a
\* dependency into an id that is no node's
C12_Witness ==
  /\ op = "validate"
  /\ \E i, j, k \in 1..Len(workflow.dependencies) :
       /\ i # j
       /\ workflow.dependencies[i].sourceId = workflow.dependencies[i].targetId
       /\ workflow.dependencies[j].sourceId = workflow.dependencies[i].sourceId
       /\ workflow.dependencies[j].targetId = workflow.dependencies[i].targetId
       /\ workflow.dependencies[k].sourceId \in NodeIdsOf(workflow)
       /\ workflow.dependencies[k].targetId \notin NodeIdsOf(workflow)
  /\ errors # <<>>

-----------------------------------------------------------------------------
(* C13 *)

\* one lexeme of every lexical rule: strings (plain, with an escape, over two
\* lines), comments (line, block, block over two lines), a number, a keyword,
\* an identifier, symbols, the arrow, blanks and a newline
Lexemes ==
  << "\"ab\"", "\"a\\\"b\"", "\"a\nb\"", "// c\n", "/* c */", "/* c\nd */",
     "42", "task", "x_1", "{", ":", "->", "  ", "\n" >>

\* a character no lexical rule takes
Unsupported == "#"

\* documents that reach an unsupported character after some lexemes
LexDocs ==
  UNION { {Concat(ls, 1) \o Unsupported \o " }" : ls \in [1..k -> Range(Lexemes)]}
          : k \in 0..MaxLexemes }

InitLex ==
  /\ workflow = EmptyWorkflow
  /\ source \in LexDocs
  /\ parser = FreshParser
  /\ parsed = NoParse
  /\ before = "none"
  /\ model = NoModel
  /\ layout = NoLayout
  /\ validators = <<>>
  /\ op = "none"
  /\ result = NoResult
  /\ errors = <<>>

SpecLex == InitLex /\ [][NextDsl]_vars

\* 1-based position of the first unsupported character of text, 0 when none
FirstUnsupported(text) ==
  LET at == {i \in 1..Len(text) : SubSeq(text, i, i) = Unsupported}
  IN IF at = {} THEN 0 ELSE CHOOSE i \in at : \A j \in at : i <= j

NewlinesBefore(text, i) == {j \in 1..(i - 1) : SubSeq(text, j, j) = "\n"}

\* 1-based line and column of position i of text
LineOf(text, i) == 1 + Cardinality(NewlinesBefore(text, i))
ColumnOf(text, i) ==
  LET nl == NewlinesBefore(text, i) \cup {0}
  IN i - (CHOOSE j \in nl : \A k \in nl : k <= j)

\* C13: when the text reaches, outside strings and comments, a character no
\* lexical rule takes, tokenize aborts there and the error carries that
\* character's 1-based line and column, whatever lexemes come before it.
C13_LexErrorPosition ==
  (op = "parse" /\ FirstUnsupported(source) > 0) =>
     /\ parsed.status = "error"
     /\ parsed.error =
          "Unexpected character: " \o Unsupported
            \o " at line " \o ToString(LineOf(source, FirstUnsupported(source)))
            \o ", column " \o ToString(ColumnOf(source, FirstUnsupported(source)))

-----------------------------------------------------------------------------
(* C14 *)

\* texts handed one after the other to one parser: documents it accepts,
\* documents it gives up on part-way (an unsupported character, an unknown
\* property, an unknown operator, a missing brace) or at the first token
\* a document with two dependencies blocks, every endpoint a node of it
TwoBlocks ==
  "workflow \"W\" {\n  start \"A\" { }\n  end \"C\" { }\n"
    \o "  dependencies { \"A\" -> \"C\" }\n  dependencies { \"C\" -> \"A\" }\n}\n"

ReuseTexts ==
  { "workflow \"W\" {\n  start \"A\" { }\n  end \"C\" { }\n}\n",
    "workflow \"V\" {\n  track \"T\" { }\n  task \"B\" { type \"x\" track \"T\" }\n"
      \o "  dependencies { \"B\" -> \"B\" }\n}\n",
    "workflow \"U\" {\n  sync \"S\" { wait_for_all true timeout 5 }\n"
      \o "  task \"B\" { type \"x\" timeout 30 }\n}\n",
    "workflow \"X\" {\n  description \"d\"\n  track \"T\" { description \"e\" }\n"
      \o "  track \"R\" { }\n}\n",
    "workflow \"Y\" {\n  // c\n  decision \"D\" { condition \"s == 1\" then \"B\" }\n"
      \o "  task \"B\" { parameters { k: [1, true] } }\n}\n",
    "workflow \"E\" { }",
    "workflow \"Z\" {\n  version \"1\"\n  end \"C\" { }\n  start \"A\" { /* c */ }\n}\n",
    "workflow \"W\" {\n  start \"A\" { }\n  # }\n",
    "@",
    "workflow \"W\" {\n  task \"B\" { retries 3 }\n}\n",
    "workflow \"W\" {\n  decision \"D\" { condition \"s ~ 1\" then \"B\" }\n}\n",
    "workflow \"W\" { start \"A\" { }",
    "// nothing\n",
    "",
    TwoBlocks,
    "workflow \"E\" { } // c\n",
    "workflow \"E\" { } }",
    "workflow \"E\" { } workflow \"F\" { }" }

InitReuse ==
  /\ workflow = EmptyWorkflow
  /\ validators = <<>>
  /\ op = "none"
  /\ result = NoResult
  /\ errors = <<>>
  /\ DslIdle

\* dslParser.parse(text) for any of the texts, on the one parser
ParseAny == \E text \in ReuseTexts : ParseText(text)

NextReuse == ParseAny

SpecReuse == InitReuse /\ [][NextReuse]_vars

\* C14: a DslParser carries nothing from one parse call to the next: whatever
\* calls came before on the same instance, calls that failed part-way with a
\* lexical or a parse error included, parse(x) returns what a parser fresh
\* from its constructor returns for x under the same clock readings and
\* random draws (the same workflow up to generated ids, or the same error).
C14_NoCarryOver ==
  LET Same(fresh) ==
        /\ parsed.status = fresh.status
        /\ parsed.error = fresh.error
        /\ parsed.workflow = fresh.workflow
      AsFresh(lexed, made) ==
        \E nows \in ClockRuns(made.nows), rands \in RandomRuns(made.rands) :
          Same(ParseOutcome(lexed, nows, rands))
      Lexed(lexed) == AsFresh(lexed, DrawsMade(lexed))
  IN op = "parse" => Lexed(Tokenize(FreshParser, source))

\* a text parsed into a workflow with two nodes by a parser whose call before
\* had stopped at an unsupported character
C14_Witness ==
  /\ op = "parse"
  /\ before = "lexical error"
  /\ parsed.status = "ok"
  /\ Len(parsed.workflow.nodes) = 2

-----------------------------------------------------------------------------
(* C15 *)

\* the keyword that opens a node of each variant
NodeWords == {"start", "end", "task", "decision", "sync"}

\* one use of every property parseNode knows
PropertyTexts ==
  [description |-> "description \"d\"",
   track |-> "track \"T\"",
   type |-> "type \"x\"",
   parameters |-> "parameters { k: 1 }",
   resources |-> "resources { cpu: 2 }",
   condition |-> "condition \"s > 1\" then \"B\"",
   default |-> "default \"B\"",
   wait_for_all |-> "wait_for_all true",
   timeout |-> "timeout 5"]

\* a workflow of one node of the given variant using the given property
PropertyDoc(word, property) ==
  "workflow \"W\" {\n  " \o word \o " \"A\" { " \o PropertyTexts[property] \o " }\n}\n"

PropertyDocs == {PropertyDoc(word, property) : word \in NodeWords, property \in DOMAIN PropertyTexts}

InitProps ==
  /\ workflow = EmptyWorkflow
  /\ source \in PropertyDocs
  /\ parser = FreshParser
  /\ parsed = NoParse
  /\ before = "none"
  /\ model = NoModel
  /\ layout = NoLayout
  /\ validators = <<>>
  /\ op = "none"
  /\ result = NoResult
  /\ errors = <<>>

SpecProps == InitProps /\ [][NextDsl]_vars

\* the property belongs to another node variant than the one the word opens
Foreign(word, property) ==
  \/ property \in {"type", "parameters"} /\ word # "task"
  \/ property \in {"condition", "default"} /\ word # "decision"
  \/ property = "wait_for_all" /\ word # "sync"
  \/ property = "timeout" /\ word \notin {"task", "sync"}

\* C15: parseNode raises a parse error whenever a property of one node
\* variant is used on another: type and parameters on a node that is no task,
\* condition and default on a node that is no decision, wait_for_all on a node
\* that is no sync point, timeout on a node that is neither task nor sync point.
C15_ForeignPropertyRejected ==
  op = "parse" =>
    \A word \in NodeWords, property \in DOMAIN PropertyTexts :
      (source = PropertyDoc(word, property) /\ Foreign(word, property))
        => parsed.status = "error"

-----------------------------------------------------------------------------
(* C16 *)

\* C16: in every workflow DslParser.parse returns, for every outcome of the
\* clock and of the random source the ids are made from, no two nodes have the
\* same id and no two tracks have the same id.
C16_IdsDistinct ==
  ParseAccepted =>
    LET wf == parsed.workflow
    IN /\ \A i, j \in 1..Len(wf.nodes) : wf.nodes[i].id = wf.nodes[j].id => i = j
       /\ \A i, j \in 1..Len(wf.tracks) : wf.tracks[i].id = wf.tracks[j].id => i = j

-----------------------------------------------------------------------------
(* C17 *)

\* the symbolic operators and some right operands of a when clause
WhenOperators == {"==", "!=", ">", "<", ">=", "<="}
WhenRights == {"1", "true", "x"}

\* two of the operators in their word form
WhenWords == {"equals", "greater_than"}

\* a workflow of two nodes and one dependency line that ends in the given tail
WhenDoc(tail) ==
  "workflow \"W\" {\n  start \"A\" { }\n  end \"B\" { }\n  dependencies {\n    \"A\" -> \"B\""
    \o tail \o "\n  }\n}\n"

\* when "<left> <op> <right>", as the grammar example and the generator write it
QuotedWhen(operator, right) == " when \"s " \o operator \o " " \o right \o "\""

\* when <left> <op> <right>, the three tokens parseDependencies reads
BareWhen(operator, right) == " when s " \o operator \o " " \o right

WhenDocs ==
  {WhenDoc(""), WhenDoc(" default")}
    \cup {WhenDoc(QuotedWhen(o, r)) : o \in WhenOperators, r \in WhenRights}
    \cup {WhenDoc(BareWhen(o, r)) : o \in WhenOperators \cup WhenWords, r \in WhenRights}

InitWhen ==
  /\ workflow = EmptyWorkflow
  /\ source \in WhenDocs
  /\ parser = FreshParser
  /\ parsed = NoParse
  /\ before = "none"
  /\ model = NoModel
  /\ layout = NoLayout
  /\ validators = <<>>
  /\ op = "none"
  /\ result = NoResult
  /\ errors = <<>>

SpecWhen == InitWhen /\ [][NextDsl]_vars

\* the parse returned one Conditional dependency whose endpoints stand for
\* the nodes named A and B
OneConditionalAToB ==
  /\ parsed.status = "ok"
  /\ Len(parsed.workflow.dependencies) = 1
  /\ parsed.workflow.dependencies[1].type = "conditional"
  /\ EndpointName(parsed.workflow, parsed.workflow.dependencies[1].sourceId) = "A"
  /\ EndpointName(parsed.workflow, parsed.workflow.dependencies[1].targetId) = "B"

\* the right operand the text stands for
RightOperandOf(right) ==
  CASE right = "1" -> NumberValue(MkNumber(1, ""))
    [] right = "true" -> BooleanValue(TRUE)
    [] right = "x" -> StringValue("x")

\* C17: in a dependencies block a line "A" -> "B" when "<left> <op> <right>"
\* (the condition quoted, the operator symbolic) parses into a Conditional
\* dependency from A to B whose condition has that left operand, operator and
\* right operand; a line ending in bare default parses into a Conditional
\* dependency with no condition.
C17_WhenAndDefaultParse ==
  op = "parse" =>
    /\ source = WhenDoc(" default") =>
          OneConditionalAToB /\ parsed.workflow.dependencies[1].condition = <<>>
    /\ \A o \in WhenOperators, r \in WhenRights :
          source = WhenDoc(QuotedWhen(o, r)) =>
            /\ OneConditionalAToB
            /\ Len(parsed.workflow.dependencies[1].condition) = 1
            /\ parsed.workflow.dependencies[1].condition[1].leftOperand = "s"
            /\ parsed.workflow.dependencies[1].condition[1].operator = OperatorOf(o)
            /\ parsed.workflow.dependencies[1].condition[1].rightOperand = RightOperandOf(r)

-----------------------------------------------------------------------------
(* C18 *)

\* middle parts: every operator token of the switch and two that are none
CondOperators == OperatorWords \cup {"~", "=>"}

\* right parts: booleans, texts of the decimal pattern, and others
CondRights == {"true", "false", "1", "12", "0.8", "1.50", "1.", ".5", "x"}

\* condition strings with the parts String.prototype.split(/\s+/) gives for
\* each: three parts one space apart, and other shapes
CondCases ==
  {[text |-> "s " \o o \o " " \o r, parts |-> <<"s", o, r>>] :
     o \in CondOperators, r \in CondRights}
    \cup {[text |-> "s", parts |-> <<"s">>],
          [text |-> "s >", parts |-> <<"s", ">">>],
          [text |-> "s>1", parts |-> <<"s>1">>],
          [text |-> "s > 1 2", parts |-> <<"s", ">", "1", "2">>],
          [text |-> " s > 1", parts |-> <<"", "s", ">", "1">>],
          [text |-> "s > 1 ", parts |-> <<"s", ">", "1", "">>],
          [text |-> " > 1", parts |-> <<"", ">", "1">>],
          [text |-> "s  >  1", parts |-> <<"s", ">", "1">>],
          [text |-> "s\t>\t1", parts |-> <<"s", ">", "1">>]}

\* a workflow whose decision node carries the condition string
CondDoc(text) ==
  "workflow \"W\" {\n  decision \"D\" { condition \"" \o text
    \o "\" then \"B\" }\n  end \"B\" { }\n}\n"

InitCond ==
  /\ workflow = EmptyWorkflow
  /\ source \in {CondDoc(case.text) : case \in CondCases}
  /\ parser = FreshParser
  /\ parsed = NoParse
  /\ before = "none"
  /\ model = NoModel
  /\ layout = NoLayout
  /\ validators = <<>>
  /\ op = "none"
  /\ result = NoResult
  /\ errors = <<>>

SpecCond == InitCond /\ [][NextDsl]_vars

\* the 11 operators of ConditionOperator, each by its word form
ElevenOperators ==
  {"equals", "not_equals", "greater_than", "less_than", "greater_than_or_equals",
   "less_than_or_equals", "contains", "not_contains", "starts_with", "ends_with", "regex"}

\* the operator a symbolic form stands for
SymbolicForm(token) ==
  CASE token \in {"==", "="} -> "equals"
    [] token = "!=" -> "not_equals"
    [] token = ">" -> "greater_than"
    [] token = "<" -> "less_than"
    [] token = ">=" -> "greater_than_or_equals"
    [] token = "<=" -> "less_than_or_equals"

SymbolicTokens == {"==", "=", "!=", ">", "<", ">=", "<="}

\* the operand a right part stands for
TypedRight(right) ==
  CASE right = "true" -> BooleanValue(TRUE)
    [] right = "false" -> BooleanValue(FALSE)
    [] right = "1" -> NumberValue(MkNumber(1, ""))
    [] right = "12" -> NumberValue(MkNumber(12, ""))
    [] right = "0.8" -> NumberValue(MkNumber(0, "8"))
    [] right = "1.50" -> NumberValue(MkNumber(1, "5"))
    [] OTHER -> StringValue(right)

\* the conditions of the decision node the parse returned
ParsedConditions == parsed.workflow.nodes[1].conditions

\* C18: parseCondition accepts a condition string exactly when it splits on
\* whitespace into three parts whose middle part is a known operator token;
\* a symbolic form and its word form give the same one of the 11 operators;
\* the right operand is a boolean for true and false, a number for text of the
\* decimal pattern and a string otherwise; every other shape is rejected with
\* an error.
C18_ParseCondition ==
  op = "parse" =>
    \A case \in CondCases :
      source = CondDoc(case.text) =>
        IF Len(case.parts) = 3 /\ case.parts[2] \in SymbolicTokens \cup ElevenOperators
          THEN /\ parsed.status = "ok"
               /\ Len(ParsedConditions) = 1
               /\ ParsedConditions[1].leftOperand = case.parts[1]
               /\ ParsedConditions[1].operator \in ElevenOperators
               /\ ParsedConditions[1].operator =
                    (IF case.parts[2] \in SymbolicTokens THEN SymbolicForm(case.parts[2])
                     ELSE case.parts[2])
               /\ ParsedConditions[1].rightOperand = TypedRight(case.parts[3])
          ELSE /\ parsed.status = "error"
               /\ parsed.error # ""
               /\ parsed.workflow = EmptyWorkflow

\* a condition in symbolic form was parsed into its operator with a numeric
\* right operand
C18_Witness ==
  /\ op = "parse"
  /\ source = CondDoc("s >= 0.8")
  /\ parsed.status = "ok"
  /\ ParsedConditions[1].operator = "greater_than_or_equals"
  /\ ParsedConditions[1].rightOperand.kind = "number"

-----------------------------------------------------------------------------
(* C19 *)

\* the line occurs somewhere in the text
Occurs(line, text) ==
  \E i \in 1..(Len(text) - Len(line) + 1) : SubSeq(text, i, i + Len(line) - 1) = line

\* C19: for a resolved workflow DslGenerator.generate writes names, never
\* generated identifiers, at every cross-reference: the track line of a node
\* carries the name of the track whose id is node.trackId, the default line of
\* a decision the name of the node whose id is defaultTargetId, each
\* condition ... then the name of the condition's target node, and each
\* dependency line the names of its source and target nodes.
C19_NamesNotIds ==
  (op = "generate" /\ workflow \in RoundTripWorkflows) =>
    /\ \A i \in 1..Len(workflow.nodes), j \in 1..Len(workflow.tracks) :
         workflow.nodes[i].trackId = <<workflow.tracks[j].id>> =>
           Occurs("  track \"" \o workflow.tracks[j].name \o "\"\n", source)
    /\ \A i, j \in 1..Len(workflow.nodes) :
         workflow.nodes[i].defaultTargetId = <<workflow.nodes[j].id>> =>
           Occurs("  default \"" \o workflow.nodes[j].name \o "\"\n", source)
    /\ \A i \in 1..Len(workflow.nodes) :
         \A k \in 1..Len(workflow.nodes[i].conditions) :
           Len(workflow.nodes[i].conditions[k].targetName) = 1 =>
             Occurs("\" then \""
                      \o EndpointName(workflow, workflow.nodes[i].conditions[k].targetName[1])
                      \o "\"\n", source)
    /\ \A d \in 1..Len(workflow.dependencies) :
         Occurs("\"" \o EndpointName(workflow, workflow.dependencies[d].sourceId)
                  \o "\" -> \""
                  \o EndpointName(workflow, workflow.dependencies[d].targetId) \o "\"",
                source)

-----------------------------------------------------------------------------
(* C20 *)

\* the message ends with the line and the column of the token
EndsAt(message, token) ==
  LET at == " at line " \o ToString(token.line) \o ", column " \o ToString(token.column)
  IN /\ Len(message) > Len(at)
     /\ SubSeq(message, Len(message) - Len(at) + 1, Len(message)) = at

\* C20: every failure of DslParser.parse after tokenization (any grammar
\* mismatch, a malformed condition string or an unknown operator included) is
\* an error whose message carries the line and the column of the offending
\* token, and no partially built workflow is returned.
C20_ParseErrorPositioned ==
  (op = "parse" /\ Ended(parsed) = "parse error") =>
    /\ \E i \in 1..Len(parser.tokens) : EndsAt(parsed.error, parser.tokens[i])
    /\ parsed.workflow = EmptyWorkflow

-----------------------------------------------------------------------------
(* C21 *)

\* the lexemes of an accepted document with a block of every kind
CommentBase ==
  << "workflow", "\"W\"", "{",
       "track", "\"T\"", "{", "}",
       "task", "\"B\"", "{", "type", "\"x\"",
         "parameters", "{", "k", ":", "[", "1", ",", "2", "]", "}",
         "resources", "{", "cpu", ":", "2", "}", "}",
       "start", "\"A\"", "{", "}",
       "dependencies", "{", "\"A\"", "->", "\"B\"", "}",
     "}" >>

\* the two comment forms the tokenizer turns into a COMMENT token
CommentForms == {"/* c */", "// c\n"}

\* the document with no comment, and with a comment after its k-th lexeme
Uncommented == Join(CommentBase, " ")

Commented(k, comment) ==
  Join(SubSeq(CommentBase, 1, k), " ") \o " " \o comment \o " "
    \o Join(SubSeq(CommentBase, k + 1, Len(CommentBase)), " ")

\* the places between two tokens inside the workflow block
CommentGaps == 3..(Len(CommentBase) - 1)

InitComment ==
  /\ workflow = EmptyWorkflow
  /\ source \in {Uncommented} \cup {Commented(k, comment) : k \in CommentGaps, comment \in CommentForms}
  /\ parser = FreshParser
  /\ parsed = NoParse
  /\ before = "none"
  /\ model = NoModel
  /\ layout = NoLayout
  /\ validators = <<>>
  /\ op = "none"
  /\ result = NoResult
  /\ errors = <<>>

SpecComment == InitComment /\ [][NextDsl]_vars

\* C21: comments are legal anywhere inside every brace-delimited block: a
\* COMMENT token put between any two tokens inside the workflow, track, node,
\* resources, parameters or dependencies block of an accepted document gives a
\* document parse still accepts, with the same resulting workflow (for some
\* clock readings and random draws of the parse without the comment).
C21_CommentsAnywhere ==
  LET Same(plain) == parsed.status = "ok" /\ parsed.workflow = plain.workflow
      AsPlain(lexed, made) ==
        \E nows \in ClockRuns(made.nows), rands \in RandomRuns(made.rands) :
          Same(ParseOutcome(lexed, nows, rands))
      Lexed(lexed) == AsPlain(lexed, DrawsMade(lexed))
  IN (op = "parse" /\ \E k \in CommentGaps, comment \in CommentForms :
                         source = Commented(k, comment))
       => Lexed(Tokenize(FreshParser, Uncommented))

-----------------------------------------------------------------------------
(* core/models/workflow-model.ts, core/services/workflow-service.ts        *)

\* The workflows of one WorkflowService, each under a handle, and the Track
\* objects they hold: a WorkflowModel keeps its tracks by reference, so
\* model.workflows[h].tracks lists positions in model.heap.  Nodes and
\* dependencies are kept as values: no method of WorkflowModel writes a field
\* of a node or of a dependency.

\* most Track objects ever made in one run
MaxTrackObjects == 3
\* most calls made on the service in one run
MaxCalls == 4

\* new WorkflowModel({nodes, dependencies, tracks})
WorkflowModelOf(nodes, dependencies, tracks) ==
  [nodes |-> nodes, dependencies |-> dependencies, tracks |-> tracks]

\* the Workflow a handle stands for, its tracks read through the references
WorkflowOf(m, h) ==
  [nodes |-> m.workflows[h].nodes,
   dependencies |-> m.workflows[h].dependencies,
   tracks |-> [i \in 1..Len(m.workflows[h].tracks) |-> m.heap[m.workflows[h].tracks[i]]]]

\* addNode(node): this.nodes.push(node)
AddNodeTo(m, h, node) ==
  [m EXCEPT !.workflows[h].nodes = Append(@, node)]

\* removeNode(nodeId): the node, the dependencies involving it, and its id in
\* the nodeIds of every track of this workflow
RemoveNodeFrom(m, h, nodeId) ==
  LET OtherNode(node) == node.id # nodeId
      NotInvolved(dep) == dep.sourceId # nodeId /\ dep.targetId # nodeId
      OtherId(id) == id # nodeId
  IN [m EXCEPT
        !.workflows[h] =
           [@ EXCEPT !.nodes = SelectSeq(@, OtherNode),
                     !.dependencies = SelectSeq(@, NotInvolved)],
        !.heap =
           [r \in DOMAIN @ |->
              IF r \in Range(m.workflows[h].tracks)
                THEN [@[r] EXCEPT !.nodeIds = SelectSeq(@, OtherId)]
                ELSE @[r]]]

\* addDependency(dependency): this.dependencies.push(dependency)
AddDependencyTo(m, h, dependency) ==
  [m EXCEPT !.workflows[h].dependencies = Append(@, dependency)]

\* removeDependency(sourceId, targetId)
RemoveDependencyFrom(m, h, sourceId, targetId) ==
  LET Other(dep) == ~(dep.sourceId = sourceId /\ dep.targetId = targetId)
  IN [m EXCEPT !.workflows[h].dependencies = SelectSeq(@, Other)]

\* addTrack(track), track a Track object the caller has just made
AddTrackTo(m, h, track) ==
  [m EXCEPT !.workflows[h].tracks = Append(@, Len(m.heap) + 1),
            !.heap = Append(@, track)]

\* removeTrack(trackId): this.tracks = this.tracks.filter(track => track.id !== trackId)
RemoveTrackFrom(m, h, trackId) ==
  LET Other(r) == m.heap[r].id # trackId
  IN [m EXCEPT !.workflows[h].tracks = SelectSeq(@, Other)]

\* clone(): new arrays [...this.nodes], [...this.dependencies], [...this.tracks]
\* holding the same objects
CloneOf(wm) == WorkflowModelOf(wm.nodes, wm.dependencies, wm.tracks)

\* cloneWorkflow(id): the clone is kept by the service under a handle of its own
CloneInto(m, from, to) ==
  [m EXCEPT !.workflows = [h \in DOMAIN @ \cup {to} |-> IF h = to THEN CloneOf(@[from]) ELSE @[h]]]

\* the nodes, dependencies and tracks the callers hand in
ModelNodes ==
  { [MkNode("n1", "start", "A") EXCEPT !.trackId = Some("t1")],
    [MkNode("n2", "decision", "D") EXCEPT
       !.conditions = <<MkCondition("s", "equals", NumberValue(MkNumber(1, "")), Some("n1"))>>,
       !.defaultTargetId = Some("n1")],
    [MkNode("n3", "sync_point", "S") EXCEPT
       !.config = Some([MkConfig EXCEPT !.requiredSources = <<"n1", "n2">>])] }

ModelDependencies ==
  {MkDependency("n1", "n2", "sequential"), MkDependency("n2", "n3", "sequential")}

ModelTracks ==
  { [MkTrack("t1", "T") EXCEPT !.nodeIds = <<"n1">>],
    [MkTrack("t2", "U") EXCEPT !.nodeIds = <<"n2", "n3">>] }

\* createWorkflow(workflow) for a workflow whose every reference is bound
InitModel ==
  /\ model = [workflows |->
                [h \in {"original"} |->
                   WorkflowModelOf(
                     << CHOOSE n \in ModelNodes : n.id = "n1",
                        CHOOSE n \in ModelNodes : n.id = "n2",
                        CHOOSE n \in ModelNodes : n.id = "n3" >>,
                     << MkDependency("n1", "n2", "sequential") >>,
                     << 1, 2 >>)],
              heap |-> << CHOOSE t \in ModelTracks : t.id = "t1",
                          CHOOSE t \in ModelTracks : t.id = "t2" >>,
              calls |-> 0]
  /\ workflow = EmptyWorkflow
  /\ validators = <<>>
  /\ op = "none"
  /\ result = NoResult
  /\ errors = <<>>
  /\ source = ""
  /\ parser = FreshParser
  /\ parsed = NoParse
  /\ before = "none"
  /\ layout = NoLayout

\* one more call made
Called(m) == [m EXCEPT !.calls = @ + 1]

\* what every call on the service leaves alone
ModelFrame ==
  /\ model.calls < MaxCalls
  /\ UNCHANGED <<workflow, validators, errors, source, parser, parsed, before, layout>>

\* workflowService.addNode(h, node), node with an id the workflow does not hold
AddNode ==
  \E h \in DOMAIN model.workflows, node \in ModelNodes :
    /\ node.id \notin NodeIdsOf(model.workflows[h])
    /\ model' = Called(AddNodeTo(model, h, node))
    /\ op' = "addNode"
    /\ result' = [on |-> h, with |-> node.id, returned |-> TRUE]
    /\ ModelFrame

\* workflowService.removeNode(h, nodeId)
RemoveNode ==
  \E h \in DOMAIN model.workflows, nodeId \in {"n1", "n2", "n3"} :
    /\ model' = Called(RemoveNodeFrom(model, h, nodeId))
    /\ op' = "removeNode"
    /\ result' = [on |-> h, with |-> nodeId,
                  returned |-> nodeId \in NodeIdsOf(model.workflows[h])]
    /\ ModelFrame

\* workflowService.addDependency(h, dependency), a dependency the workflow
\* does not hold
AddDependency ==
  \E h \in DOMAIN model.workflows, dependency \in ModelDependencies :
    /\ dependency \notin Range(model.workflows[h].dependencies)
    /\ model' = Called(AddDependencyTo(model, h, dependency))
    /\ op' = "addDependency"
    /\ result' = [on |-> h, with |-> dependency.sourceId, returned |-> TRUE]
    /\ ModelFrame

\* workflowService.removeDependency(h, sourceId, targetId)
RemoveDependency ==
  \E h \in DOMAIN model.workflows, dependency \in ModelDependencies :
    /\ model' = Called(RemoveDependencyFrom(model, h, dependency.sourceId, dependency.targetId))
    /\ op' = "removeDependency"
    /\ result' = [on |-> h, with |-> dependency.sourceId,
                  returned |-> dependency \in Range(model.workflows[h].dependencies)]
    /\ ModelFrame

\* workflowService.addTrack(h, track), a track with an id the workflow does
\* not hold
AddTrack ==
  \E h \in DOMAIN model.workflows, track \in ModelTracks :
    /\ Len(model.heap) < MaxTrackObjects
    /\ \A r \in Range(model.workflows[h].tracks) : model.heap[r].id # track.id
    /\ model' = Called(AddTrackTo(model, h, track))
    /\ op' = "addTrack"
    /\ result' = [on |-> h, with |-> track.id, returned |-> TRUE]
    /\ ModelFrame

\* workflowService.removeTrack(h, trackId)
RemoveTrack ==
  \E h \in DOMAIN model.workflows, trackId \in {"t1", "t2"} :
    /\ model' = Called(RemoveTrackFrom(model, h, trackId))
    /\ op' = "removeTrack"
    /\ result' = [on |-> h, with |-> trackId,
                  returned |-> \E r \in Range(model.workflows[h].tracks) :
                                 model.heap[r].id = trackId]
    /\ ModelFrame

\* workflowService.cloneWorkflow("original"), once
CloneWorkflow ==
  /\ DOMAIN model.workflows = {"original"}
  /\ model' = Called(CloneInto(model, "original", "clone"))
  /\ op' = "cloneWorkflow"
  /\ result' = [on |-> "original", with |-> "clone", returned |-> TRUE]
  /\ ModelFrame

NextModel ==
  \/ AddNode
  \/ RemoveNode
  \/ AddDependency
  \/ RemoveDependency
  \/ AddTrack
  \/ RemoveTrack
  \/ CloneWorkflow

SpecModel == InitModel /\ [][NextModel]_vars

-----------------------------------------------------------------------------
(* C22 *)

\* every reference of the workflow is to one of its nodes: dependency
\* endpoints, track members, the targets of decisions (default and
\* conditions) and the required sources of synchronization points
ReferencesBound(wf) ==
  LET ids == NodeIdsOf(wf)
  IN /\ \A i \in 1..Len(wf.dependencies) :
          wf.dependencies[i].sourceId \in ids /\ wf.dependencies[i].targetId \in ids
     /\ \A i \in 1..Len(wf.tracks) : Range(wf.tracks[i].nodeIds) \subseteq ids
     /\ \A i \in 1..Len(wf.nodes) :
          /\ Range(wf.nodes[i].defaultTargetId) \subseteq ids
          /\ \A k \in 1..Len(wf.nodes[i].conditions) :
               Range(wf.nodes[i].conditions[k].targetName) \subseteq ids
          /\ \A k \in 1..Len(wf.nodes[i].config) :
               Range(wf.nodes[i].config[k].requiredSources) \subseteq ids

\* C22: removal preserves reference integrity: if every dependency endpoint,
\* track member id, decision condition and default target id and sync-point
\* required-source id references a node of the workflow before
\* WorkflowModel.removeNode(n), the same holds after it.
C22_RemovalKeepsIntegrity ==
  [][\A h \in DOMAIN model.workflows :
       (op' = "removeNode" /\ result'.on = h /\ ReferencesBound(WorkflowOf(model, h)))
         => ReferencesBound(WorkflowOf(model', h))]_vars

-----------------------------------------------------------------------------
(* core/models/resource-model.ts: ResourceRequirementModel                 *)

\* largest amount, of either sign, a caller hands in
MaxAmount == 2

ResourceTypes == {"cpu", "memory", "gpu", "custom"}

Amounts == (0 - MaxAmount)..MaxAmount

\* the Partial<ResourceRequirement> values handed to the constructor
Requirements ==
  [resourceType : {None} \cup {Some(t) : t \in ResourceTypes},
   amount : {None} \cup {Some(a) : a \in Amounts},
   resourceId : {None, Some("r1")}]

\* constructor(requirement): throws when the type or the amount is undefined
ConstructorThrows(requirement) ==
  requirement.resourceType = None \/ requirement.amount = None

\* the object the constructor makes otherwise
NewRequirement(requirement) ==
  MkResource(Get(requirement.resourceType), Get(requirement.amount), requirement.resourceId)

InitResource ==
  /\ \E requirement \in Requirements :
       /\ ~ConstructorThrows(requirement)
       /\ model = NewRequirement(requirement)
  /\ workflow = EmptyWorkflow
  /\ validators = <<>>
  /\ op = "new"
  /\ result = [threw |-> FALSE]
  /\ errors = <<>>
  /\ source = ""
  /\ parser = FreshParser
  /\ parsed = NoParse
  /\ before = "none"
  /\ layout = NoLayout

\* what a call on the requirement leaves alone
ResourceFrame ==
  UNCHANGED <<workflow, validators, errors, source, parser, parsed, before, layout>>

\* setAmount(amount): throws on a negative amount, else this.amount = amount
SetAmount ==
  \E amount \in Amounts :
    /\ IF amount < 0
         THEN model' = model /\ result' = [threw |-> TRUE]
         ELSE model' = [model EXCEPT !.amount = amount] /\ result' = [threw |-> FALSE]
    /\ op' = "setAmount"
    /\ ResourceFrame

\* setResourceType(type)
SetResourceType ==
  \E type \in ResourceTypes :
    /\ model' = [model EXCEPT !.resourceType = type]
    /\ op' = "setResourceType"
    /\ result' = [threw |-> FALSE]
    /\ ResourceFrame

\* setResourceId(id)
SetResourceId ==
  /\ model' = [model EXCEPT !.resourceId = Some("r1")]
  /\ op' = "setResourceId"
  /\ result' = [threw |-> FALSE]
  /\ ResourceFrame

NextResource == SetAmount \/ SetResourceType \/ SetResourceId

SpecResource == InitResource /\ [][NextResource]_vars

-----------------------------------------------------------------------------
(* C23 *)

\* C23: every ResourceRequirementModel has amount >= 0 in every reachable
\* state: neither construction nor any sequence of setAmount calls gives a
\* negative amount (a rejected setAmount leaving the amount as it was).
C23_AmountNeverNegative == model.amount >= 0

-----------------------------------------------------------------------------
(* core/models/track-model.ts: TrackModel; resource-model.ts: NodeModel    *)

\* the tracks and the nodes of one workflow, by id
TrackIds == {"t1", "t2"}
TrackNodeIds == {"n1", "n2"}

\* new TrackModel({id}) for every track, createNodeModel({id, type}) for every
\* node: no members, no trackId
InitTrack ==
  /\ model = [tracks |-> [t \in TrackIds |-> [MkTrack(t, "New Track") EXCEPT !.nodeIds = <<>>]],
              nodes |-> [n \in TrackNodeIds |-> MkNode(n, "task", "New Node")]]
  /\ workflow = EmptyWorkflow
  /\ validators = <<>>
  /\ op = "none"
  /\ result = NoResult
  /\ errors = <<>>
  /\ source = ""
  /\ parser = FreshParser
  /\ parsed = NoParse
  /\ before = "none"
  /\ layout = NoLayout

\* what a call on a track or on a node leaves alone
TrackFrame ==
  UNCHANGED <<workflow, validators, errors, source, parser, parsed, before, layout>>

\* track.addNode(nodeId): pushed unless this track already lists it
TrackAddNode ==
  \E t \in TrackIds, n \in TrackNodeIds :
    /\ model' = IF n \in Range(model.tracks[t].nodeIds) THEN model
                ELSE [model EXCEPT !.tracks[t].nodeIds = Append(@, n)]
    /\ op' = "track.addNode"
    /\ result' = [on |-> t, with |-> n, returned |-> TRUE]
    /\ TrackFrame

\* track.removeNode(nodeId)
TrackRemoveNode ==
  \E t \in TrackIds, n \in TrackNodeIds :
    LET Other(id) == id # n
    IN /\ model' = [model EXCEPT !.tracks[t].nodeIds = SelectSeq(@, Other)]
       /\ op' = "track.removeNode"
       /\ result' = [on |-> t, with |-> n, returned |-> n \in Range(model.tracks[t].nodeIds)]
       /\ TrackFrame

\* node.assignToTrack(trackId): this.trackId = trackId
AssignToTrack ==
  \E n \in TrackNodeIds, t \in TrackIds :
    /\ model' = [model EXCEPT !.nodes[n].trackId = Some(t)]
    /\ op' = "node.assignToTrack"
    /\ result' = [on |-> n, with |-> t, returned |-> TRUE]
    /\ TrackFrame

\* node.removeFromTrack(): this.trackId = undefined
RemoveFromTrack ==
  \E n \in TrackNodeIds :
    /\ model' = [model EXCEPT !.nodes[n].trackId = None]
    /\ op' = "node.removeFromTrack"
    /\ result' = [on |-> n, with |-> n, returned |-> TRUE]
    /\ TrackFrame

NextTrack == TrackAddNode \/ TrackRemoveNode \/ AssignToTrack \/ RemoveFromTrack

SpecTrack == InitTrack /\ [][NextTrack]_vars

-----------------------------------------------------------------------------
(* C24 *)

\* C24: after any sequence of TrackModel.addNode/removeNode and
\* NodeModel.assignToTrack/removeFromTrack calls on the tracks and nodes of
\* one workflow, each node id appears in the nodeIds of at most one track.
C24_AtMostOneTrack ==
  \A n \in TrackNodeIds :
    \A t, u \in TrackIds :
      (n \in Range(model.tracks[t].nodeIds) /\ n \in Range(model.tracks[u].nodeIds)) => t = u

-----------------------------------------------------------------------------
(* C25 *)

\* C25: the dependencies element may repeat: when a document holds several
\* dependencies { ... } blocks, the dependency list of the parsed workflow
\* holds, in document order, every dependency declared in every block.
C25_BlocksAccumulate ==
  (op = "parse" /\ source = TwoBlocks) =>
    /\ parsed.status = "ok"
    /\ Len(parsed.workflow.dependencies) = 2
    /\ EndpointName(parsed.workflow, parsed.workflow.dependencies[1].sourceId) = "A"
    /\ EndpointName(parsed.workflow, parsed.workflow.dependencies[1].targetId) = "C"
    /\ EndpointName(parsed.workflow, parsed.workflow.dependencies[2].sourceId) = "C"
    /\ EndpointName(parsed.workflow, parsed.workflow.dependencies[2].targetId) = "A"

-----------------------------------------------------------------------------
(* C26 *)

\* the texts in which a token that is no comment follows the closing brace
\* of the workflow block
TrailingTexts == {"workflow \"E\" { } }", "workflow \"E\" { } workflow \"F\" { }"}

\* C26: DslParser.parse accepts a document only when the whole token stream
\* is a single workflow block: if a token that is no comment follows the
\* closing brace of the workflow, parse raises a parse error and returns no
\* workflow.
C26_TrailingTokensRejected ==
  (op = "parse" /\ source \in TrailingTexts) =>
    (parsed.status = "error" /\ parsed.workflow = EmptyWorkflow)

-----------------------------------------------------------------------------
(* core/models/dependency-model.ts: DependencyModel                        *)

\* the conditions a caller hands to setCondition
ModelConditions ==
  {MkCondition(left, operator, right, None) :
     left \in {"s", "x"}, operator \in {"equals", "greater_than", "less_than"},
     right \in {NumberValue(MkNumber(n, "")) : n \in 1..3}}

\* constructor(dependency): type defaults to sequential
NewDependency(sourceId, targetId, type, condition) ==
  [MkDependency(sourceId, targetId, IF type = None THEN "sequential" ELSE Get(type))
     EXCEPT !.condition = condition]

\* new DependencyModel({sourceId, targetId, type?}) with no condition
InitDependency ==
  /\ \E sourceId \in {"n1", "n2"}, type \in {None} \cup {Some(t) : t \in DependencyTypes} :
       model = NewDependency(sourceId, "n3", type, None)
  /\ workflow = EmptyWorkflow
  /\ validators = <<>>
  /\ op = "new"
  /\ result = NoResult
  /\ errors = <<>>
  /\ source = ""
  /\ parser = FreshParser
  /\ parsed = NoParse
  /\ before = "none"
  /\ layout = NoLayout

\* what a call on the dependency leaves alone
DependencyFrame ==
  UNCHANGED <<workflow, validators, result, errors, source, parser, parsed, before, layout>>

\* setType(type): this.type = type
SetType ==
  \E type \in DependencyTypes :
    /\ model' = [model EXCEPT !.type = type]
    /\ op' = "setType"
    /\ DependencyFrame

\* setCondition(condition): the condition is kept and the type made conditional
SetCondition ==
  \E condition \in ModelConditions :
    /\ model' = [model EXCEPT !.condition = Some(condition), !.type = "conditional"]
    /\ op' = "setCondition"
    /\ DependencyFrame

\* removeCondition(): the condition is dropped and a conditional type reset
\* to sequential
RemoveCondition ==
  /\ model' = [model EXCEPT !.condition = None,
                            !.type = IF @ = "conditional" THEN "sequential" ELSE @]
  /\ op' = "removeCondition"
  /\ DependencyFrame

NextDependency == SetType \/ SetCondition \/ RemoveCondition

SpecDependency == InitDependency /\ [][NextDependency]_vars

-----------------------------------------------------------------------------
(* C27 *)

\* C27: in every state reachable by constructing a DependencyModel with no
\* condition and then applying any sequence of setType, setCondition and
\* removeCondition, the dependency carries a condition only if its type is
\* Conditional.
C27_ConditionOnlyIfConditional ==
  model.condition # <<>> => model.type = "conditional"

-----------------------------------------------------------------------------
(* visualization/visualization-service.ts: VisualizationService            *)

\* most dependencies of a workflow handed to calculateLayout
MaxLayoutDeps == 2
\* highest level the model follows the loop of calculateNodeLevels to; no
\* path without a repeated node reaches it in a workflow of the universe
MaxLevel == 4

\* core/constants.ts
DEFAULT_NODE_WIDTH == 200
DEFAULT_TRACK_SPACING == 200
DEFAULT_NODE_SPACING == 100

\* workflows handed to calculateLayout: without tracks, and with one track
\* that the first node is assigned to
LayoutWorkflows ==
  LET Plain == GraphWorkflows(NodeUniverse, {"start", "task"}, MaxLayoutDeps, {0})
      Tracked(wf) ==
        [wf EXCEPT !.tracks = <<[MkTrack("t1", "T") EXCEPT !.nodeIds = <<wf.nodes[1].id>>]>>,
                   !.nodes[1].trackId = Some("t1")]
  IN Plain \cup {Tracked(wf) : wf \in {w \in Plain : Len(w.nodes) > 0}}

IsStart(node) == node.type = "start"

\* levels.set(id, level) on the Map kept as a function
SetLevel(levels, id, level) ==
  [n \in DOMAIN levels \cup {id} |-> IF n = id THEN level ELSE levels[n]]

\* the locals of calculateNodeLevels before its while loop
StartLevels(wf) ==
  LET startNodes == SelectSeq(wf.nodes, IsStart)
      ids == [i \in 1..Len(startNodes) |-> startNodes[i].id]
  IN [pc |-> IF Len(startNodes) = 0 THEN "position" ELSE "loop",
      levels |-> [id \in Range(ids) |-> 0],
      visited |-> Range(ids),
      queue |-> ids]

\* for (const dep of outgoingDeps): a target not visited yet, or reached by a
\* longer path, gets level + 1 and is queued
RECURSIVE VisitTargets(_, _, _, _)
VisitTargets(st, outgoingDeps, i, level) ==
  IF i > Len(outgoingDeps) THEN st
  ELSE
    LET targetId == outgoingDeps[i].targetId
    IN IF targetId \notin st.visited \/ st.levels[targetId] < level + 1
       THEN VisitTargets([st EXCEPT !.levels = SetLevel(@, targetId, level + 1),
                                    !.visited = @ \cup {targetId},
                                    !.queue = Append(@, targetId)],
                         outgoingDeps, i + 1, level)
       ELSE VisitTargets(st, outgoingDeps, i + 1, level)

\* one turn of while (queue.length > 0): queue.shift() and its outgoing
\* dependencies
LevelsTurn(wf, st) ==
  LET nodeId == Head(st.queue)
      From(dep) == dep.sourceId = nodeId
  IN VisitTargets([st EXCEPT !.queue = Tail(@)], SelectSeq(wf.dependencies, From), 1,
                  st.levels[nodeId])

\* nodeLevels.get(id) || 0
LevelOr0(levels, id) == IF id \in DOMAIN levels THEN levels[id] ELSE 0

\* how many of the first i - 1 entries of nodes satisfy the same test as the i-th
IndexAmong(keys, i) == Cardinality({j \in 1..(i - 1) : keys[j] = keys[i]})

\* calculateSimpleLayout: the nodes of a level side by side, the levels
\* DEFAULT_NODE_SPACING apart
SimpleLayout(wf, levels) ==
  LET level == [i \in 1..Len(wf.nodes) |-> LevelOr0(levels, wf.nodes[i].id)]
      Count(i) == Cardinality({j \in 1..Len(wf.nodes) : level[j] = level[i]})
      StartX(i) == 0 - ((Count(i) * DEFAULT_NODE_WIDTH) \div 2)
  IN [i \in 1..Len(wf.nodes) |->
        [id |-> wf.nodes[i].id,
         x |-> StartX(i) + IndexAmong(level, i) * DEFAULT_NODE_WIDTH + IndexAmong(level, i) * 20,
         y |-> level[i] * DEFAULT_NODE_SPACING]]

\* calculateTrackBasedLayout: one column per track that has nodes, the
\* nodes of no track in a last column; a node that has no level is looked for
\* among the nodes of level 0, is not found, and gets index -1
TrackBasedLayout(wf, levels) ==
  LET trackIds == [t \in 1..Len(wf.tracks) |-> wf.tracks[t].id]
      Key(i) == IF IsSome(wf.nodes[i].trackId) /\ Get(wf.nodes[i].trackId) \in Range(trackIds)
                  THEN Get(wf.nodes[i].trackId) ELSE "default"
      keys == Append(trackIds, "default")
      Used(k) == \E i \in 1..Len(wf.nodes) : Key(i) = keys[k]
      Column(i) ==
        Cardinality({k \in 1..Len(keys) :
                       /\ Used(k)
                       /\ k < (CHOOSE k2 \in 1..Len(keys) : keys[k2] = Key(i))})
      Group(i) == [j \in 1..Len(wf.nodes) |->
                     <<Key(j), IF wf.nodes[j].id \in DOMAIN levels
                                 THEN levels[wf.nodes[j].id] ELSE 0 - 1>>]
      NodeIndex(i) ==
        IF wf.nodes[i].id \in DOMAIN levels THEN IndexAmong(Group(i), i) ELSE 0 - 1
  IN [i \in 1..Len(wf.nodes) |->
        [id |-> wf.nodes[i].id,
         x |-> Column(i) * DEFAULT_TRACK_SPACING + NodeIndex(i) * 50,
         y |-> LevelOr0(levels, wf.nodes[i].id) * DEFAULT_NODE_SPACING]]

InitLayout ==
  /\ workflow \in LayoutWorkflows
  /\ layout = [pc |-> "idle", levels |-> <<>>, visited |-> {}, queue |-> <<>>]
  /\ model = NoModel
  /\ validators = <<>>
  /\ op = "none"
  /\ result = <<>>
  /\ errors = <<>>
  /\ source = ""
  /\ parser = FreshParser
  /\ parsed = NoParse
  /\ before = "none"

\* what calculateLayout leaves alone
LayoutFrame ==
  UNCHANGED <<workflow, validators, errors, source, parser, parsed, before, model>>

\* calculateLayout(workflow) is called and reaches the loop of calculateNodeLevels
CalculateLayout ==
  /\ layout.pc = "idle"
  /\ layout' = StartLevels(workflow)
  /\ op' = "calculateLayout"
  /\ UNCHANGED result
  /\ LayoutFrame

\* one turn of the while loop, followed as long as the level of the node
\* taken from the queue is below MaxLevel
LevelsLoop ==
  /\ layout.pc = "loop"
  /\ layout.queue # <<>>
  /\ layout.levels[Head(layout.queue)] < MaxLevel
  /\ layout' = LevelsTurn(workflow, layout)
  /\ UNCHANGED <<op, result>>
  /\ LayoutFrame

\* the queue is empty: calculateNodeLevels returns
LevelsReturn ==
  /\ layout.pc = "loop"
  /\ layout.queue = <<>>
  /\ layout' = [layout EXCEPT !.pc = "position"]
  /\ UNCHANGED <<op, result>>
  /\ LayoutFrame

\* the nodes are positioned and calculateLayout returns
PositionNodes ==
  /\ layout.pc = "position"
  /\ result' = IF Len(workflow.tracks) > 0 THEN TrackBasedLayout(workflow, layout.levels)
               ELSE SimpleLayout(workflow, layout.levels)
  /\ layout' = [layout EXCEPT !.pc = "done"]
  /\ UNCHANGED op
  /\ LayoutFrame

NextLayout == CalculateLayout \/ LevelsLoop \/ LevelsReturn \/ PositionNodes

SpecLayout == InitLayout /\ [][NextLayout]_vars

\* the call runs on: a step that can be taken is taken
SpecLayoutRuns == SpecLayout /\ WF_vars(NextLayout)

-----------------------------------------------------------------------------
(* C28 *)

-----------------------------------------------------------------------------
(* C29 *)

ModelEdits ==
  {"addNode", "removeNode", "addDependency", "removeDependency", "addTrack", "removeTrack"}

\* C29: a clone is independent of its original: an addNode, removeNode,
\* addDependency, removeDependency, addTrack or removeTrack applied to one of
\* the two leaves the node list, the dependency list and the tracks (every
\* track's nodeIds included) of the other unchanged.
C29_CloneIndependent ==
  [][\A h \in DOMAIN model.workflows, g \in DOMAIN model.workflows :
       (h # g /\ op' \in ModelEdits /\ result'.on = h)
         => WorkflowOf(model', g) = WorkflowOf(model, g)]_vars

-----------------------------------------------------------------------------
(* C30 *)

\* every node's trackId references a track of the workflow
TrackIdsBound(wf) ==
  \A i \in 1..Len(wf.nodes) :
    Range(wf.nodes[i].trackId) \subseteq {wf.tracks[k].id : k \in 1..Len(wf.tracks)}

\* C30: if every node's trackId references an existing track before
\* removeTrack(t), then after it no node of the workflow has trackId t.
C30_RemovedTrackUnreferenced ==
  [][\A h \in DOMAIN model.workflows :
       (op' = "removeTrack" /\ result'.on = h /\ TrackIdsBound(WorkflowOf(model, h)))
         => \A i \in 1..Len(WorkflowOf(model', h).nodes) :
              result'.with \notin Range(WorkflowOf(model', h).nodes[i].trackId)]_vars

====
